---- MODULE Spec2Model ----
(***************************************************************************)
(* State-machine model of openclaw-webhook-bridge (Rust).                  *)
(*                                                                         *)
(*   src/src/sessions/types.rs   session entry, key helpers                *)
(*   src/src/sessions/store.rs   file-backed session store with TTL cache  *)
(*   src/src/commands/mod.rs     text command parser                       *)
(*   src/src/bridge/mod.rs       orchestrator (Bridge)                     *)
(*   src/src/openclaw/mod.rs     upstream (gateway) client                 *)
(*   src/src/webhook/mod.rs      downstream (webhook) client               *)
(*   src/src/main.rs             run_bridge wiring                         *)
(*                                                                         *)
(* Strings are sequences of one-character strings, so that trim,           *)
(* starts_with and concatenation are computed as the code computes them.   *)
(* Option<T> is a sequence of length 0 (None) or 1 (Some).                 *)
(***************************************************************************)
EXTENDS Integers, Sequences, FiniteSets, TLC

(***************************************************************************)
(* Bounds of the model (not program constants).                            *)
(***************************************************************************)
\* store callers / frame handlers that may run concurrently
MaxTasks == 2
\* store operations issued one after the other in the sequential harness
MaxSeqOps == 2
\* clock advances
MaxTicks == 1
\* injected I/O failures
MaxFaults == 1
\* consecutive connection attempts that fail
MaxFails == 5
\* ping frames received by a supervision loop
MaxPings == 1

(***************************************************************************)
(* Program constants.                                                      *)
(***************************************************************************)
\* StoreConfig::new: cache_ttl = 45 s, in clock milliseconds
CacheTtlMs == 45000
\* Store::new: loaded_at = Instant::now() - 100 s
InitialCacheAgeMs == 100000
\* send_raw: sleep(Duration::from_secs(5))
SendWaitMs == 5000
\* connect: mpsc::channel(100)
QueueCap == 100
\* connect: sleep(Duration::from_secs(5))
ConnectWaitMs == 5000
\* openclaw connection_loop: reconnect_delay = Duration::from_secs(1)
OpenclawInitialDelayMs == 1000
\* webhook connection_loop: reconnect_delay = Duration::from_secs(2)
WebhookInitialDelayMs == 2000
\* connection_loop: max_reconnect_delay = Duration::from_secs(30)
MaxReconnectDelayMs == 30000

(***************************************************************************)
(* Option and string helpers.                                              *)
(***************************************************************************)
None == <<>>
Some(x) == <<x>>
IsSome(o) == Len(o) = 1
IsNone(o) == Len(o) = 0
Unwrap(o) == o[1]

\* char::is_whitespace restricted to the characters the inputs use
Whitespace == {" ", "\t"}

RECURSIVE TrimStart(_)
TrimStart(s) ==
    IF Len(s) = 0 THEN s
    ELSE IF Head(s) \in Whitespace THEN TrimStart(Tail(s)) ELSE s

RECURSIVE TrimEnd(_)
TrimEnd(s) ==
    IF Len(s) = 0 THEN s
    ELSE IF s[Len(s)] \in Whitespace THEN TrimEnd(SubSeq(s, 1, Len(s) - 1)) ELSE s

\* str::trim
Trim(s) == TrimEnd(TrimStart(s))

\* str::starts_with
StartsWith(s, p) == Len(s) >= Len(p) /\ SubSeq(s, 1, Len(p)) = p

\* string literals of the program
S_new == <<"/", "n", "e", "w">>
S_reset == <<"/", "r", "e", "s", "e", "t">>
S_help == <<"/", "h", "e", "l", "p">>
S_version == <<"/", "v", "e", "r", "s", "i", "o", "n">>
S_global == <<"g", "l", "o", "b", "a", "l">>
S_webhook == <<"w", "e", "b", "h", "o", "o", "k">>
S_colon == <<":">>
S_slash == <<"/">>
S_forward == <<"F", "O", "R", "W", "A", "R", "D", "_", "T", "O", "_",
               "G", "A", "T", "E", "W", "A", "Y", ":">>
S_dm == <<"d", "m">>
S_group == <<"g", "r", "o", "u", "p">>
S_channel == <<"c", "h", "a", "n", "n", "e", "l">>
S_S1 == <<"S", "1">>
S_m1 == <<"m", "1">>
S_m2 == <<"m", "2">>
S_u1 == <<"u", "1">>
S_u2 == <<"u", "2">>
S_uid == <<"u", "i", "d">>
S_main == <<"m", "a", "i", "n">>
S_hi == <<"h", "i">>
S_hello == <<"h", "e", "l", "l", "o">>

(***************************************************************************)
(* sessions/types.rs: SessionEntry, DeliveryContext, SessionStore.         *)
(***************************************************************************)
\* SessionEntry with every optional field None
NewEntry(sid, ts) ==
    [session_id |-> sid, updated_at |-> ts, session_file |-> None,
     delivery_context |-> None, last_channel |-> None, last_to |-> None,
     last_account_id |-> None, last_thread_id |-> None,
     webhook_message_id |-> None, webhook_session_id |-> None]

\* HashMap<String, SessionEntry>
EmptyStore == [k \in {} |-> NewEntry(0, 0)]
StoreGet(m, k) == IF k \in DOMAIN m THEN Some(m[k]) ELSE None
StoreInsert(m, k, e) == [j \in (DOMAIN m) \cup {k} |-> IF j = k THEN e ELSE m[j]]

(***************************************************************************)
(* serde: the store file is a sequence of tokens, "{", one "kv" token per  *)
(* mapping entry, "}".  An Option field that is None is left out of the    *)
(* object (skip_serializing_if) and a field missing on parse is None.      *)
(***************************************************************************)
EntryRequired == {"session_id", "updated_at"}
EntryOptional == {"session_file", "delivery_context", "last_channel", "last_to",
                  "last_account_id", "last_thread_id", "webhook_message_id",
                  "webhook_session_id"}
\* #[serde(rename = ...)] of SessionEntry
EntryJsonName ==
    [session_id |-> "sessionId", updated_at |-> "updatedAt",
     session_file |-> "sessionFile", delivery_context |-> "deliveryContext",
     last_channel |-> "lastChannel", last_to |-> "lastTo",
     last_account_id |-> "lastAccountId", last_thread_id |-> "lastThreadId",
     webhook_message_id |-> "webhookMessageId",
     webhook_session_id |-> "webhookSessionId"]
\* #[serde(rename = ...)] of DeliveryContext
CtxJsonName ==
    [channel |-> "channel", to |-> "to", account_id |-> "accountId",
     thread_id |-> "threadId"]

FieldOfJson(names, j) == CHOOSE f \in DOMAIN names : names[f] = j

\* a Serialize for DeliveryContext without the renames
SerCtx_FieldNames(c) ==
    LET present == {f \in DOMAIN c : IsSome(c[f])}
    IN  [f \in present |-> Unwrap(c[f])]

\* Serialize for DeliveryContext
SerCtx(c) ==
    LET present == {f \in DOMAIN c : IsSome(c[f])}
    IN  [j \in {CtxJsonName[f] : f \in present} |->
            Unwrap(c[FieldOfJson(CtxJsonName, j)])]

\* Deserialize for DeliveryContext
ParseCtx(o) ==
    [f \in DOMAIN CtxJsonName |->
        IF CtxJsonName[f] \in DOMAIN o THEN Some(o[CtxJsonName[f]]) ELSE None]

\* Serialize for SessionEntry
SerEntry(e) ==
    LET present == {f \in DOMAIN e : f \in EntryRequired \/ IsSome(e[f])}
    IN  [j \in {EntryJsonName[f] : f \in present} |->
            LET f == FieldOfJson(EntryJsonName, j)
            IN  IF f \in EntryRequired THEN e[f]
                ELSE IF f = "delivery_context" THEN SerCtx(Unwrap(e[f]))
                ELSE Unwrap(e[f])]

EntryParsable(o) == \A f \in EntryRequired : EntryJsonName[f] \in DOMAIN o

\* Deserialize for SessionEntry
ParseEntry(o) ==
    [f \in EntryRequired \cup EntryOptional |->
        LET j == EntryJsonName[f]
        IN  IF f \in EntryRequired THEN o[j]
            ELSE IF j \notin DOMAIN o THEN None
            ELSE IF f = "delivery_context" THEN Some(ParseCtx(o[j]))
            ELSE Some(o[j])]

OpenTok == [t |-> "{", k |-> <<>>, v |-> <<>>]
CloseTok == [t |-> "}", k |-> <<>>, v |-> <<>>]
EntryTok(k, e) == [t |-> "kv", k |-> k, v |-> SerEntry(e)]

RECURSIVE EntryToks(_, _)
EntryToks(m, keys) ==
    IF keys = {} THEN <<>>
    ELSE LET k == CHOOSE x \in keys : TRUE
         IN  <<EntryTok(k, m[k])>> \o EntryToks(m, keys \ {k})

\* bytes that are not UTF-8 (a multi-byte character cut short, foreign data)
NotUtf8Tok == [t |-> "bytes", k |-> <<>>, v |-> <<>>]

\* read_to_string accepts the content
ValidUtf8(c) == \A i \in 1..Len(c) : c[i].t # "bytes"

\* serde_json::to_string_pretty(store)
Serialize(m) == <<OpenTok>> \o EntryToks(m, DOMAIN m) \o <<CloseTok>>

\* the content is one JSON object whose values parse as SessionEntry
IsJsonStore(c) ==
    /\ Len(c) >= 2
    /\ c[1].t = "{"
    /\ c[Len(c)].t = "}"
    /\ \A i \in 2..(Len(c) - 1) : c[i].t = "kv" /\ EntryParsable(c[i].v)

\* serde_json::from_str::<SessionStore>(contents), a later duplicate key wins
FromStr(c) ==
    LET idx == 2..(Len(c) - 1)
        keys == {c[i].k : i \in idx}
        last(k) == CHOOSE i \in idx : c[i].k = k /\ \A j \in idx : c[j].k = k => j <= i
    IN  [k \in keys |-> ParseEntry(c[last(k)].v)]

\* Store::load, lines 75-79: empty or unparsable content is an empty mapping
ParseStore(c) ==
    IF Len(c) = 0 THEN EmptyStore
    ELSE IF IsJsonStore(c) THEN FromStr(c) ELSE EmptyStore

\* write of `data` at offset 0 of a file holding `old`
WriteAt0(old, data) == data \o SubSeq(old, Len(data) + 1, Len(old))

(***************************************************************************)
(* sessions/types.rs and sessions/store.rs: entry transforms.              *)
(***************************************************************************)
\* DeliveryContext values
Ctx(channel, to, account, thread) ==
    [channel |-> channel, to |-> to, account_id |-> account, thread_id |-> thread]

\* a reset closure that carries the existing session id over
ResetEntry_KeepsSessionId(existing, sid, ts) ==
    NewEntry(IF IsSome(existing) THEN Unwrap(existing).session_id ELSE sid, ts)

\* bridge/mod.rs 149-162: the reset closure ignores the existing entry
ResetEntry(existing, sid, ts) == NewEntry(sid, ts)

\* store.rs 160-188: the record_inbound_meta closure
RecordInboundMetaEntry(existing, message_id, ctx, sid, ts) ==
    LET base == IF IsSome(existing) THEN Unwrap(existing) ELSE NewEntry(sid, ts)
    IN  [base EXCEPT !.updated_at = ts,
                     !.delivery_context = Some(ctx),
                     !.last_channel = ctx.channel,
                     !.last_to = ctx.to,
                     !.last_account_id = ctx.account_id,
                     !.last_thread_id = ctx.thread_id,
                     !.webhook_message_id = Some(message_id)]

\* store.rs 197-225: the update_last_route closure
UpdateLastRouteEntry(existing, ctx, sid, ts) ==
    LET base == IF IsSome(existing) THEN Unwrap(existing) ELSE NewEntry(sid, ts)
    IN  [base EXCEPT !.updated_at = ts,
                     !.last_channel =
                         IF IsSome(ctx.channel) THEN ctx.channel ELSE base.last_channel,
                     !.last_account_id =
                         IF IsSome(ctx.account_id) THEN ctx.account_id
                         ELSE base.last_account_id]

\* whether the closure of operation `op` calls generate_session_id
CallsGenerateSessionId(op, existing) == op = "reset" \/ IsNone(existing)

\* the closure handed to update_entry by operation `op`
Transform(op, existing, message_id, ctx, sid, ts) ==
    IF op = "reset" THEN ResetEntry(existing, sid, ts)
    ELSE IF op = "record" THEN RecordInboundMetaEntry(existing, message_id, ctx, sid, ts)
    ELSE UpdateLastRouteEntry(existing, ctx, sid, ts)

(***************************************************************************)
(* Inbound frames.  A downstream frame is a JSON document: `valid` says    *)
(* whether the bytes are JSON at all, every field is an Option (absent or  *)
(* not a string: None).  Protocol tags (type, stream, state, phase, event) *)
(* are only compared for equality and are kept as plain strings.           *)
(***************************************************************************)
WebhookFrame(type, id, content, session, peerKind, peerId) ==
    [valid |-> TRUE, type |-> type, id |-> id, content |-> content,
     session |-> session, peerKind |-> peerKind, peerId |-> peerId,
     chatType |-> None, chatId |-> None, senderId |-> None,
     topicId |-> None, threadId |-> None]

\* bytes that are not JSON
GarbageFrame ==
    [valid |-> FALSE, type |-> None, id |-> None, content |-> None,
     session |-> None, peerKind |-> None, peerId |-> None,
     chatType |-> None, chatId |-> None, senderId |-> None,
     topicId |-> None, threadId |-> None]

(***************************************************************************)
(* sessions/types.rs: key helpers.                                         *)
(***************************************************************************)
\* types.rs 64
DEFAULT_RESET_TRIGGERS == <<S_new, S_reset>>

\* types.rs 77-79
normalize_session_key(key) == Trim(key)

\* a fallback that ignores the scope
scope_session_key_PerSender(scope, id) == S_webhook \o S_colon \o id

\* types.rs 90-95: scope fallback
scope_session_key(scope, id) ==
    IF scope = "global" THEN S_global ELSE S_webhook \o S_colon \o id

\* types.rs 108-128
build_webhook_session_key(agent_id, peer_kind, peer_id, topic_id, thread_id) ==
    IF Len(peer_kind) = 0 \/ Len(peer_id) = 0 THEN None
    ELSE LET base == S_webhook \o S_colon \o agent_id \o S_colon \o peer_kind
                     \o S_colon \o peer_id
             withTopic == IF IsSome(topic_id) /\ Len(Unwrap(topic_id)) > 0
                          THEN base \o S_colon \o Unwrap(topic_id) ELSE base
             withThread == IF IsSome(thread_id) /\ Len(Unwrap(thread_id)) > 0
                           THEN withTopic \o S_colon \o Unwrap(thread_id)
                           ELSE withTopic
         IN  Some(withThread)

\* types.rs 175-187
is_session_control_message(f) ==
    /\ f.valid
    /\ IsSome(f.type)
    /\ Unwrap(f.type) \in {"session.get", "session.list", "session.reset",
                           "session.delete"}

(***************************************************************************)
(* commands/mod.rs.                                                        *)
(***************************************************************************)
\* commands/mod.rs 5-7
is_command(content) == StartsWith(Trim(content), S_slash)

\* commands/mod.rs 48-52
should_forward_to_gateway(content) == content \notin {S_help, S_version}

\* the text of a local reply (handle_help / handle_version), opaque
HelpText == <<"Available commands">>
VersionText == <<"OpenClaw Bridge Rust">>

\* commands/mod.rs 30-45: Err carries the text of anyhow::bail!
CommandHandler_handle_command(content) ==
    LET trimmed == Trim(content)
    IN  IF should_forward_to_gateway(trimmed)
        THEN [ok |-> FALSE, text |-> S_forward \o trimmed]
        ELSE [ok |-> TRUE,
              text |-> IF trimmed = S_help THEN HelpText ELSE VersionText]

\* commands/mod.rs 10-17
format_command_response(response, session) ==
    [kind |-> "out", type |-> "complete", content |-> response, session |-> session]

(***************************************************************************)
(* bridge/mod.rs: pure helpers of Bridge.                                  *)
(***************************************************************************)
\* serde_json::from_slice::<WebhookMessage>: id and content are required
ParsesAsWebhookMessage(f) == f.valid /\ IsSome(f.id) /\ IsSome(f.content)

\* a coalesce that looks at the first candidate only
coalesce_string_HeadOnly(values) ==
    IF Len(values) > 0 /\ IsSome(Head(values)) /\ Len(Trim(Unwrap(Head(values)))) > 0
    THEN Some(Trim(Unwrap(Head(values)))) ELSE None

\* bridge/mod.rs 351-361
RECURSIVE coalesce_string(_)
coalesce_string(values) ==
    IF Len(values) = 0 THEN None
    ELSE IF IsSome(Head(values)) /\ Len(Trim(Unwrap(Head(values)))) > 0
         THEN Some(Trim(Unwrap(Head(values))))
         ELSE coalesce_string(Tail(values))

\* a resolver that tries the composite key before the explicit session
resolve_session_key_CompositeFirst(agent_id, scope, msg) ==
    LET peer_kind == coalesce_string(<<msg.peerKind, msg.chatType>>)
        peer_id == coalesce_string(<<msg.peerId, msg.chatId, msg.senderId>>)
        built == IF IsSome(peer_kind) /\ IsSome(peer_id)
                 THEN build_webhook_session_key(agent_id, Unwrap(peer_kind),
                          Unwrap(peer_id), msg.topicId, msg.threadId)
                 ELSE None
    IN  IF IsSome(built) THEN Unwrap(built)
        ELSE IF IsSome(msg.session) THEN normalize_session_key(Unwrap(msg.session))
        ELSE scope_session_key(scope, Unwrap(msg.id))

\* bridge/mod.rs 312-348
resolve_session_key(agent_id, scope, msg) ==
    IF IsSome(msg.session) THEN normalize_session_key(Unwrap(msg.session))
    ELSE LET peer_kind == coalesce_string(<<msg.peerKind, msg.chatType>>)
             peer_id == coalesce_string(<<msg.peerId, msg.chatId, msg.senderId>>)
             built == IF IsSome(peer_kind) /\ IsSome(peer_id)
                      THEN build_webhook_session_key(agent_id, Unwrap(peer_kind),
                               Unwrap(peer_id), msg.topicId, msg.threadId)
                      ELSE None
         IN  IF IsSome(built) THEN Unwrap(built)
             ELSE scope_session_key(scope, Unwrap(msg.id))

\* Option::or
OptionOr(a, b) == IF IsSome(a) THEN a ELSE b

\* bridge/mod.rs 364-374
resolve_delivery_thread_id(msg) ==
    LET peer_kind == OptionOr(msg.peerKind, msg.chatType)
    IN  IF IsNone(peer_kind) THEN None
        ELSE IF Unwrap(peer_kind) = S_dm THEN msg.threadId
        ELSE IF Unwrap(peer_kind) \in {S_group, S_channel}
             THEN OptionOr(msg.topicId, msg.threadId)
        ELSE None

\* bridge/mod.rs 139-145
delivery_context(uid, msg) ==
    Ctx(Some(S_webhook),
        Some(IF IsSome(msg.peerId) THEN Unwrap(msg.peerId) ELSE Unwrap(msg.id)),
        Some(uid),
        resolve_delivery_thread_id(msg))

\* bridge/mod.rs 377-380
is_reset_trigger(content) ==
    \E i \in 1..Len(DEFAULT_RESET_TRIGGERS) : Trim(content) = DEFAULT_RESET_TRIGGERS[i]

\* bridge/mod.rs 385-394: the loop over the triggers, from trigger i on
RECURSIVE strip_from(_, _, _)
strip_from(content, trimmed, i) ==
    IF i > Len(DEFAULT_RESET_TRIGGERS) THEN content
    ELSE LET trigger == DEFAULT_RESET_TRIGGERS[i]
         IN  IF trimmed = trigger THEN <<>>
             ELSE IF /\ StartsWith(trimmed, trigger)
                     /\ Len(trimmed) > Len(trigger)
                     /\ trimmed[Len(trigger) + 1] = " "
                  THEN Trim(SubSeq(trimmed, Len(trigger) + 2, Len(trimmed)))
                  ELSE strip_from(content, trimmed, i + 1)

\* bridge/mod.rs 383-396
strip_reset_trigger(content) == strip_from(content, Trim(content), 1)

\* openclaw/mod.rs 319-332: the AgentRequest built at clock reading `nanos`
AgentRequest(agent_id, message, session_key, nanos) ==
    [kind |-> "agent", type |-> "req", id |-> <<"agent:", nanos>>, method |-> "agent",
     message |-> message, agentId |-> agent_id, sessionKey |-> session_key,
     deliver |-> TRUE, idempotencyKey |-> nanos]

\* openclaw/mod.rs 262-283: the connect handshake request
ConnectRequest == [kind |-> "connect", type |-> "req", id |-> "connect", method |-> "connect"]

\* chrono timestamp_nanos_opt at clock reading `ms`: the i64 value
\* ms * 10^6 + 0, kept as <<milliseconds, nanoseconds of the millisecond>>
NanosOf(ms) == <<ms, 0>>

(***************************************************************************)
(* bridge/mod.rs: the translator.  An upstream event is a JSON document;   *)
(* a field that is absent or of the wrong JSON type is None.               *)
(***************************************************************************)
NoData == [phase |-> None, text |-> None]
UpstreamEvent(event, type, stream, sessionKey, state, data, items) ==
    [valid |-> TRUE, event |-> event, type |-> type, stream |-> stream,
     sessionKey |-> sessionKey, state |-> state, data |-> data,
     message |-> IF IsSome(items) THEN Some([content |-> items]) ELSE None]

GarbageEvent ==
    [valid |-> FALSE, event |-> None, type |-> None, stream |-> None,
     sessionKey |-> None, state |-> None, data |-> None, message |-> None]

\* a reply that is always of type "complete"
WebhookOut_AlwaysComplete(type, content, session) ==
    [kind |-> "out", type |-> "complete", content |-> content, session |-> session]

WebhookOut(type, content, session) ==
    [kind |-> "out", type |-> type, content |-> content, session |-> session]

\* bytes relayed as they are
RawOut(ev) == [kind |-> "raw", ev |-> ev]

\* bridge/mod.rs 259-265: None when the `?` on an item's type returns early
RECURSIVE ChatText(_)
ChatText(items) ==
    IF Len(items) = 0 THEN Some(<<>>)
    ELSE LET item == Head(items)
         IN  IF IsNone(item.type) THEN None
             ELSE LET rest == ChatText(Tail(items))
                  IN  IF IsNone(rest) THEN None
                      ELSE IF Unwrap(item.type) = "text" /\ IsSome(item.text)
                           THEN Some(Unwrap(item.text) \o Unwrap(rest))
                           ELSE rest

\* bridge/mod.rs 214-299
convert_event_to_webhook_format(ev) ==
    IF IsNone(ev.type) THEN None
    ELSE IF Unwrap(ev.type) = "agent" THEN
        IF IsNone(ev.stream) \/ IsNone(ev.sessionKey) THEN None
        ELSE IF Unwrap(ev.stream) = "lifecycle" THEN
            IF IsNone(ev.data) \/ IsNone(Unwrap(ev.data).phase) THEN None
            ELSE IF Unwrap(Unwrap(ev.data).phase) \in {"end", "complete"}
                 THEN Some(WebhookOut("complete", <<>>, Unwrap(ev.sessionKey)))
                 ELSE None
        ELSE IF Unwrap(ev.stream) = "assistant" THEN
            IF IsNone(ev.data) \/ IsNone(Unwrap(ev.data).text) THEN None
            ELSE IF Len(Unwrap(Unwrap(ev.data).text)) > 0
                 THEN Some(WebhookOut("progress", Unwrap(Unwrap(ev.data).text),
                                      Unwrap(ev.sessionKey)))
                 ELSE None
        ELSE None
    ELSE IF Unwrap(ev.type) = "chat" THEN
        IF IsNone(ev.state) \/ IsNone(ev.sessionKey) THEN None
        ELSE LET text == IF IsSome(ev.message) /\ IsSome(Unwrap(ev.message).content)
                         THEN ChatText(Unwrap(Unwrap(ev.message).content))
                         ELSE Some(<<>>)
                 state == Unwrap(ev.state)
                 session_key == Unwrap(ev.sessionKey)
             IN  IF IsNone(text) THEN None
                 ELSE IF state = "final"
                      THEN Some(WebhookOut("complete", Unwrap(text), session_key))
                 ELSE IF state = "delta" /\ Len(Unwrap(text)) > 0
                      THEN Some(WebhookOut("progress", Unwrap(text), session_key))
                 ELSE IF state = "error"
                      THEN Some(WebhookOut("error", <<"An error occurred">>, session_key))
                 ELSE None
    ELSE Some(RawOut(ev))

\* bridge/mod.rs 187-211: what handle_openclaw_event hands to send_to_webhook
openclaw_event_output(ev) ==
    IF ~ev.valid THEN Some(RawOut(ev))
    ELSE IF IsSome(ev.event)
            /\ Unwrap(ev.event) \in {"lifecycle", "tick", "presence", "health"}
         THEN None
    ELSE convert_event_to_webhook_format(ev)

(***************************************************************************)
(* State.                                                                  *)
(***************************************************************************)
VARIABLES
    now,        \* clock, milliseconds (Instant::now and Utc::now)
    ticks,      \* clock advances made
    faults,     \* I/O failures injected
    crashed,    \* the process has stopped
    file,       \* content of the store file (tokens)
    lock,       \* flock state of the store file
    cache,      \* Store.cache: CacheEntry {data, loaded_at}
    nextSid,    \* generate_session_id: the next fresh id
    committed,  \* mapping written by the last save whose write completed
    tasks,      \* spawned tasks: store callers and frame handlers
    bridge,     \* Bridge fields set at construction
    clients,    \* openclaw::Client / webhook::Client objects
    wire        \* frames written on each transport

envVars == <<now, ticks, faults, crashed>>
storeVars == <<file, lock, cache, nextSid, committed>>
netVars == <<bridge, clients, wire>>
vars == <<now, ticks, faults, crashed, file, lock, cache, nextSid, committed,
          tasks, bridge, clients, wire>>

MaxSlots == IF MaxTasks > MaxSeqOps THEN MaxTasks ELSE MaxSeqOps
TaskIds == 1..MaxSlots

NoCtx == Ctx(None, None, None, None)
NoFrame == [valid |-> FALSE]

IdleTask ==
    [kind |-> "idle", pc |-> "idle", op |-> "none", key |-> <<>>, msgId |-> <<>>,
     ctx |-> NoCtx, store |-> EmptyStore, entry |-> None, status |-> "none",
     frame |-> NoFrame, content |-> <<>>, isReset |-> FALSE, resetOk |-> "none",
     recordOk |-> "none", client |-> "none", data |-> None, deadline |-> 0,
     sent |-> None, failedIn |-> "none", path |-> "none", woken |-> FALSE,
     sendRes |-> "none"]

Running == ~crashed

\* what a task does once its store operation has returned
AfterStoreOp(tk, ok) ==
    IF tk.kind = "op" THEN [tk EXCEPT !.pc = "done", !.status = ok]
    ELSE IF tk.op = "reset"
         THEN [tk EXCEPT !.resetOk = ok, !.op = "record", !.pc = "load",
                         !.entry = None]
         ELSE [tk EXCEPT !.recordOk = ok, !.pc = "forward"]

\* load() returned Ok(store) to its caller
AfterLoad(tk) ==
    IF tk.op = "load" THEN AfterStoreOp(tk, "ok") ELSE [tk EXCEPT !.pc = "apply"]

Unlock(t) ==
    [excl |-> IF lock.excl = t THEN 0 ELSE lock.excl, shared |-> lock.shared \ {t}]

\* a TTL test that still accepts a snapshot exactly one TTL old
CacheFresh_AtTtl == now - cache.loaded_at <= CacheTtlMs

CacheFresh == now - cache.loaded_at < CacheTtlMs

(***************************************************************************)
(* Store::load, store.rs 53-91.                                            *)
(***************************************************************************)
\* 55-60: the cached snapshot is younger than the TTL
Load_CacheHit(t) ==
    /\ Running /\ tasks[t].pc = "load" /\ CacheFresh
    /\ tasks' = [tasks EXCEPT ![t] = AfterLoad([@ EXCEPT !.store = cache.data])]
    /\ UNCHANGED <<envVars, storeVars, netVars>>

\* 57: the snapshot is stale, go to disk
Load_CacheMiss(t) ==
    /\ Running /\ tasks[t].pc = "load" /\ ~CacheFresh
    /\ tasks' = [tasks EXCEPT ![t].pc = "loadLock"]
    /\ UNCHANGED <<envVars, storeVars, netVars>>

\* 63-69: open (create, no truncate) and lock_shared
Load_LockShared(t) ==
    /\ Running /\ tasks[t].pc = "loadLock" /\ lock.excl = 0
    /\ lock' = [lock EXCEPT !.shared = @ \cup {t}]
    /\ tasks' = [tasks EXCEPT ![t].pc = "loadRead"]
    /\ UNCHANGED <<envVars, file, cache, nextSid, committed, netVars>>

\* 71-81: read_to_string, parse leniently, unlock; read_to_string returns
\* an error for content that is not UTF-8, and the file is dropped
Load_Read(t) ==
    /\ Running /\ tasks[t].pc = "loadRead"
    /\ lock' = Unlock(t)
    /\ tasks' = [tasks EXCEPT ![t] =
                    IF ValidUtf8(file)
                    THEN [@ EXCEPT !.store = ParseStore(file), !.pc = "loadCache"]
                    ELSE AfterStoreOp([@ EXCEPT !.failedIn = "load"], "err")]
    /\ UNCHANGED <<envVars, file, cache, nextSid, committed, netVars>>

\* 73: read_to_string fails, the error is returned and the file dropped
Load_ReadFail(t) ==
    /\ Running /\ tasks[t].pc = "loadRead" /\ faults < MaxFaults
    /\ faults' = faults + 1
    /\ lock' = Unlock(t)
    /\ tasks' = [tasks EXCEPT ![t] = AfterStoreOp([@ EXCEPT !.failedIn = "load"], "err")]
    /\ UNCHANGED <<now, ticks, crashed, file, cache, nextSid, committed, netVars>>

\* 84-90: refresh the cache and return the mapping
Load_CacheStore(t) ==
    /\ Running /\ tasks[t].pc = "loadCache"
    /\ cache' = [data |-> tasks[t].store, loaded_at |-> now]
    /\ tasks' = [tasks EXCEPT ![t] = AfterLoad(@)]
    /\ UNCHANGED <<envVars, file, lock, nextSid, committed, netVars>>

(***************************************************************************)
(* Store::update / update_entry, store.rs 121-151: apply the closure.      *)
(***************************************************************************)
Update_Apply(t) ==
    LET tk == tasks[t]
        existing == StoreGet(tk.store, tk.key)
        entry == Transform(tk.op, existing, tk.msgId, tk.ctx, nextSid, now)
    IN  /\ Running /\ tk.pc = "apply"
        /\ nextSid' = IF CallsGenerateSessionId(tk.op, existing)
                      THEN nextSid + 1 ELSE nextSid
        /\ tasks' = [tasks EXCEPT ![t] =
                        [@ EXCEPT !.store = StoreInsert(tk.store, tk.key, entry),
                                  !.entry = Some(entry), !.pc = "saveOpen"]]
        /\ UNCHANGED <<envVars, file, lock, cache, committed, netVars>>

(***************************************************************************)
(* Store::save, store.rs 94-118.                                           *)
(***************************************************************************)
\* 95-100: open with truncate(true); no lock is held yet
Save_Open(t) ==
    /\ Running /\ tasks[t].pc = "saveOpen"
    /\ file' = <<>>
    /\ tasks' = [tasks EXCEPT ![t].pc = "saveLock"]
    /\ UNCHANGED <<envVars, lock, cache, nextSid, committed, netVars>>

\* 102: lock_exclusive
Save_LockExclusive(t) ==
    /\ Running /\ tasks[t].pc = "saveLock"
    /\ lock.excl = 0 /\ lock.shared = {}
    /\ lock' = [lock EXCEPT !.excl = t]
    /\ tasks' = [tasks EXCEPT ![t].pc = "saveWrite"]
    /\ UNCHANGED <<envVars, file, cache, nextSid, committed, netVars>>

\* 102: lock_exclusive fails, the error is returned
Save_LockFail(t) ==
    /\ Running /\ tasks[t].pc = "saveLock" /\ faults < MaxFaults
    /\ faults' = faults + 1
    /\ tasks' = [tasks EXCEPT ![t] = AfterStoreOp([@ EXCEPT !.failedIn = "save"], "err")]
    /\ UNCHANGED <<now, ticks, crashed, storeVars, netVars>>

\* 104-108: serialize, write_all from offset 0, unlock
Save_Write(t) ==
    /\ Running /\ tasks[t].pc = "saveWrite"
    /\ file' = WriteAt0(file, Serialize(tasks[t].store))
    /\ committed' = tasks[t].store
    /\ lock' = Unlock(t)
    /\ tasks' = [tasks EXCEPT ![t].pc = "saveCache"]
    /\ UNCHANGED <<envVars, cache, nextSid, netVars>>

\* 106: write_all fails after n tokens, the error is returned
Save_WriteFail(t) ==
    /\ Running /\ tasks[t].pc = "saveWrite" /\ faults < MaxFaults
    /\ \E n \in 0..(Len(Serialize(tasks[t].store)) - 1) :
          file' = WriteAt0(file, SubSeq(Serialize(tasks[t].store), 1, n))
    /\ faults' = faults + 1
    /\ lock' = Unlock(t)
    /\ tasks' = [tasks EXCEPT ![t] = AfterStoreOp([@ EXCEPT !.failedIn = "save"], "err")]
    /\ UNCHANGED <<now, ticks, crashed, cache, nextSid, committed, netVars>>

\* 110-117: refresh the cache; update_entry returns the entry
Save_CacheStore(t) ==
    /\ Running /\ tasks[t].pc = "saveCache"
    /\ cache' = [data |-> tasks[t].store, loaded_at |-> now]
    /\ tasks' = [tasks EXCEPT ![t] = AfterStoreOp(@, "ok")]
    /\ UNCHANGED <<envVars, file, lock, nextSid, committed, netVars>>

StoreStep(t) ==
    \/ Load_CacheHit(t) \/ Load_CacheMiss(t) \/ Load_LockShared(t)
    \/ Load_Read(t) \/ Load_ReadFail(t) \/ Load_CacheStore(t)
    \/ Update_Apply(t)
    \/ Save_Open(t) \/ Save_LockExclusive(t) \/ Save_LockFail(t)
    \/ Save_Write(t) \/ Save_WriteFail(t) \/ Save_CacheStore(t)

(***************************************************************************)
(* Environment: time passes, the process stops.                            *)
(***************************************************************************)
Tick(d) ==
    /\ Running /\ ticks < MaxTicks
    /\ now' = now + d
    /\ ticks' = ticks + 1
    /\ UNCHANGED <<faults, crashed, storeVars, tasks, netVars>>

SomeTaskRunning == \E t \in TaskIds : tasks[t].pc \notin {"idle", "done"}

\* the process stops (kill, power loss) while a task is running
Crash ==
    /\ Running /\ faults < MaxFaults /\ SomeTaskRunning
    /\ crashed' = TRUE
    /\ faults' = faults + 1
    /\ UNCHANGED <<now, ticks, storeVars, tasks, netVars>>

(***************************************************************************)
(* Harness: callers of the Store API (record_inbound_meta,                 *)
(* update_last_route, update_entry with the reset closure, load).          *)
(***************************************************************************)
HarnessKeys == {S_global, S_S1}
CtxFull == Ctx(Some(S_webhook), Some(S_u1), Some(S_uid), Some(S_m1))
CtxPartial == Ctx(Some(S_webhook), Some(S_u2), None, None)
HarnessCalls ==
    {[op |-> "record", key |-> k, msgId |-> S_m1, ctx |-> CtxFull] : k \in HarnessKeys}
    \cup {[op |-> "route", key |-> k, msgId |-> <<>>, ctx |-> CtxPartial] : k \in HarnessKeys}
    \cup {[op |-> "reset", key |-> k, msgId |-> <<>>, ctx |-> NoCtx] : k \in HarnessKeys}
    \cup {[op |-> "load", key |-> <<>>, msgId |-> <<>>, ctx |-> NoCtx]}

LowestIdle(t) == tasks[t].pc = "idle" /\ \A u \in TaskIds : u < t => tasks[u].pc # "idle"

StartCall(t, c) ==
    /\ Running /\ LowestIdle(t)
    /\ tasks' = [tasks EXCEPT ![t] =
                    [IdleTask EXCEPT !.kind = "op", !.pc = "load", !.op = c.op,
                                     !.key = c.key, !.msgId = c.msgId, !.ctx = c.ctx,
                                     !.status = "run"]]
    /\ UNCHANGED <<envVars, storeVars, netVars>>

\* concurrent callers (one tokio task per inbound frame, main.rs 168-177)
CallConcurrent == \E t \in 1..MaxTasks : \E c \in HarnessCalls : StartCall(t, c)

\* one caller at a time
CallSequential ==
    /\ ~SomeTaskRunning
    /\ \E t \in 1..MaxSeqOps : \E c \in HarnessCalls : StartCall(t, c)

StoreTick == \E d \in {1, CacheTtlMs} : Tick(d)

\* the mapping an earlier run of the program left in the store file: one
\* entry, written by record_inbound_meta, under one of the two keys
PriorStore ==
    StoreInsert(EmptyStore, S_S1, RecordInboundMetaEntry(None, S_m2, CtxFull, 0, 0))

\* Store::new over the file of an earlier run; no Bridge, the Store API is
\* called directly
InitStore ==
    /\ now = 0 /\ ticks = 0 /\ faults = 0 /\ crashed = FALSE
    /\ file = Serialize(PriorStore)
    /\ lock = [excl |-> 0, shared |-> {}]
    /\ cache = [data |-> EmptyStore, loaded_at |-> now - InitialCacheAgeMs]
    /\ nextSid = 1
    /\ committed = PriorStore
    /\ tasks = [t \in TaskIds |-> IdleTask]
    /\ bridge = [wiring |-> "none", session_store |-> FALSE]
    /\ clients = <<>>
    /\ wire = <<>>

NextStore ==
    \/ CallConcurrent
    \/ \E t \in TaskIds : StoreStep(t)
    \/ StoreTick
    \/ Crash

NextSeq ==
    \/ CallSequential
    \/ \E t \in TaskIds : StoreStep(t)
    \/ StoreTick
    \/ Crash

\* store files a Store may be opened on: an earlier run's mapping, no
\* content, JSON cut short, JSON of another shape, bytes that are not UTF-8
FileContents ==
    {Serialize(PriorStore), <<>>, <<OpenTok>>,
     <<OpenTok, [t |-> "kv", k |-> S_S1, v |-> [updatedAt |-> 0]], CloseTok>>,
     <<OpenTok, NotUtf8Tok>>}

\* Store::new over any of these files
InitFile ==
    /\ now = 0 /\ ticks = 0 /\ faults = 0 /\ crashed = FALSE
    /\ file \in FileContents
    /\ lock = [excl |-> 0, shared |-> {}]
    /\ cache = [data |-> EmptyStore, loaded_at |-> now - InitialCacheAgeMs]
    /\ nextSid = 1
    /\ committed = ParseStore(file)
    /\ tasks = [t \in TaskIds |-> IdleTask]
    /\ bridge = [wiring |-> "none", session_store |-> FALSE]
    /\ clients = <<>>
    /\ wire = <<>>

\* the Store, one caller at a time, over any store file
SpecFile == InitFile /\ [][NextSeq]_vars

\* the Store under concurrent callers
SpecStore == InitStore /\ [][NextStore]_vars

\* the Store under one caller at a time
SpecSeq == InitStore /\ [][NextSeq]_vars

(***************************************************************************)
(* The store file shared with another process.  flock locks are advisory   *)
(* and per open file: a second process that opens the store file can take  *)
(* a lock on it and keep it.  OtherProcess names that holder in `lock`.    *)
(***************************************************************************)
\* StoreConfig::new: lock_timeout = Duration::from_secs(10)
LockTimeoutMs == 10000

OtherProcess == MaxSlots + 1

\* the other process takes the exclusive lock and does not release it
Other_LockExclusive ==
    /\ Running /\ lock.excl = 0 /\ lock.shared = {}
    /\ lock' = [lock EXCEPT !.excl = OtherProcess]
    /\ UNCHANGED <<envVars, file, cache, nextSid, committed, tasks, netVars>>

\* the other process takes a shared lock and does not release it
Other_LockShared ==
    /\ Running /\ lock.excl = 0 /\ OtherProcess \notin lock.shared
    /\ lock' = [lock EXCEPT !.shared = @ \cup {OtherProcess}]
    /\ UNCHANGED <<envVars, file, cache, nextSid, committed, tasks, netVars>>

\* the call of task t is blocked inside lock_shared() or lock_exclusive()
WaitsForLock(t) ==
    \/ tasks[t].pc = "loadLock" /\ lock.excl # 0
    \/ tasks[t].pc = "saveLock" /\ (lock.excl # 0 \/ lock.shared # {})

\* the configured lock_timeout goes by while a call is blocked on a lock
LockWaitElapses ==
    /\ \E t \in TaskIds : WaitsForLock(t)
    /\ Tick(LockTimeoutMs)

NextLock ==
    \/ CallSequential
    \/ \E t \in TaskIds : StoreStep(t)
    \/ Crash
    \/ Other_LockExclusive
    \/ Other_LockShared
    \/ LockWaitElapses

\* a caller that can take its next step takes it, and time goes on
FairStore ==
    /\ \A t \in TaskIds : WF_vars(StoreStep(t))
    /\ WF_vars(LockWaitElapses)

\* the Store under one caller at a time, next to another process
SpecLock == InitStore /\ [][NextLock]_vars /\ FairStore

(***************************************************************************)
(* The bridge.  bridge.wiring says how the Bridge object was assembled:    *)
(*   "run_bridge"  main.rs 114-189: no session store is set, and the       *)
(*                 clients stored in the Bridge (oc0, wh0) are not the     *)
(*                 clients connect() is called on (oc, wh);                *)
(*   "configured"  the Bridge API used in full: set_session_store,         *)
(*                 set_uid, set_session_scope, and the connected clients   *)
(*                 handed to set_openclaw_client / set_webhook_client.     *)
(***************************************************************************)
LiveClients == {"oc", "wh"}
ClientIds == {"oc", "wh", "oc0", "wh0"}
IsOpenclaw(c) == c \in {"oc", "oc0"}

\* Bridge.openclaw_client / Bridge.webhook_client
BridgeOc == IF bridge.wiring = "configured" THEN "oc" ELSE "oc0"
BridgeWh == IF bridge.wiring = "configured" THEN "wh" ELSE "wh0"

\* Client::new: connected false, send_tx None, no supervision loop
NewClient ==
    [connected |-> FALSE, send_tx |-> FALSE, queue |-> <<>>, loop |-> "none",
     dropped |-> FALSE]

\* a client whose connect() has returned Ok
ConnectedClient ==
    [connected |-> TRUE, send_tx |-> TRUE, queue |-> <<>>, loop |-> "connected",
     dropped |-> FALSE]

BridgeWirings ==
    {[wiring |-> "run_bridge", session_store |-> FALSE, scope |-> "per-sender",
      uid |-> <<>>, agent_id |-> S_main]}
    \cup {[wiring |-> "configured", session_store |-> TRUE, scope |-> sc,
           uid |-> S_uid, agent_id |-> S_main] : sc \in {"per-sender", "global"}}

\* handle_webhook_message / handle_openclaw_event returns
HandlerReturn(tk, res) == [tk EXCEPT !.pc = "done", !.status = res]

\* a command handler that tags a forward with the resolved key
HandleCommand_ResolvedKey(tk, msg) ==
    LET r == CommandHandler_handle_command(Unwrap(msg.content))
        session == resolve_session_key(bridge.agent_id, bridge.scope, msg)
    IN  IF ~r.ok /\ StartsWith(r.text, S_forward)
        THEN [tk EXCEPT !.path = "command",
                        !.content = SubSeq(r.text, Len(S_forward) + 1, Len(r.text)),
                        !.key = session, !.pc = "forward"]
        ELSE [tk EXCEPT !.path = "command",
                        !.data = Some(format_command_response(r.text, session)),
                        !.client = BridgeWh, !.pc = "sendCheck"]

\* bridge/mod.rs 399-431: handle_command up to its send
HandleCommand(tk, msg) ==
    LET r == CommandHandler_handle_command(Unwrap(msg.content))
        session == IF IsSome(msg.session) THEN Unwrap(msg.session) ELSE S_global
    IN  IF ~r.ok /\ StartsWith(r.text, S_forward)
        THEN [tk EXCEPT !.path = "command",
                        !.content = SubSeq(r.text, Len(S_forward) + 1, Len(r.text)),
                        !.key = session, !.pc = "forward"]
        ELSE [tk EXCEPT !.path = "command",
                        !.data = Some(format_command_response(
                                     IF r.ok THEN r.text ELSE <<"Error: ">> \o r.text,
                                     session)),
                        !.client = BridgeWh, !.pc = "sendCheck"]

\* bridge/mod.rs 88-173: handle_webhook_message up to its first store or
\* network operation
Handle_WebhookMessage(t) ==
    LET tk == tasks[t]
        msg == tk.frame
        content == Unwrap(msg.content)
    IN  /\ Running /\ tk.kind = "webhook" /\ tk.pc = "start"
        /\ tasks' = [tasks EXCEPT ![t] =
              IF is_session_control_message(msg)
              THEN HandlerReturn([tk EXCEPT !.path = "control"], "ok")
              ELSE IF ~ParsesAsWebhookMessage(msg)
              THEN HandlerReturn([tk EXCEPT !.path = "unparsable"], "ok")
              ELSE IF IsSome(msg.type)
                      /\ Unwrap(msg.type) \in {"connected", "error", "event"}
              THEN HandlerReturn([tk EXCEPT !.path = "skipped"], "ok")
              ELSE IF Len(content) = 0
              THEN HandlerReturn([tk EXCEPT !.path = "empty"], "ok")
              ELSE IF is_command(content)
              THEN HandleCommand(tk, msg)
              ELSE [tk EXCEPT
                      !.path = "conversational",
                      !.key = resolve_session_key(bridge.agent_id, bridge.scope, msg),
                      !.isReset = is_reset_trigger(content),
                      !.content = IF is_reset_trigger(content)
                                  THEN strip_reset_trigger(content) ELSE content,
                      !.msgId = Unwrap(msg.id),
                      !.ctx = delivery_context(bridge.uid, msg),
                      !.op = IF ~bridge.session_store THEN "none"
                             ELSE IF is_reset_trigger(content) THEN "reset"
                             ELSE "record",
                      !.pc = IF bridge.session_store THEN "load" ELSE "forward"]]
        /\ UNCHANGED <<envVars, storeVars, netVars>>

\* bridge/mod.rs 175-181 and 411-415, openclaw/mod.rs 319-335:
\* send_agent_request builds the request at the current clock reading
Handle_Forward(t) ==
    LET tk == tasks[t]
    IN  /\ Running /\ tk.kind = "webhook" /\ tk.pc = "forward"
        /\ tasks' = [tasks EXCEPT ![t] =
              [tk EXCEPT !.data = Some(AgentRequest(bridge.agent_id, tk.content,
                                                    tk.key, NanosOf(now))),
                         !.client = BridgeOc, !.pc = "sendCheck"]]
        /\ UNCHANGED <<envVars, storeVars, netVars>>

\* bridge/mod.rs 187-211: handle_openclaw_event up to send_to_webhook
Handle_OpenclawEvent(t) ==
    LET tk == tasks[t]
        out == openclaw_event_output(tk.frame)
    IN  /\ Running /\ tk.kind = "event" /\ tk.pc = "start"
        /\ tasks' = [tasks EXCEPT ![t] =
              IF IsNone(out) THEN HandlerReturn(tk, "ok")
              ELSE [tk EXCEPT !.data = out, !.client = BridgeWh, !.pc = "sendCheck"]]
        /\ UNCHANGED <<envVars, storeVars, netVars>>

\* the send returned `res` to the handler: `?` after send_agent_request
\* propagates an error, send_to_webhook only logs it
SendReturn(tk, res) ==
    HandlerReturn([tk EXCEPT !.sendRes = res],
                  IF IsOpenclaw(tk.client) THEN res ELSE "ok")

\* openclaw/mod.rs 296 and webhook/mod.rs 213-215: the connected check
Send_Check(t) ==
    LET tk == tasks[t]
    IN  /\ Running /\ tk.pc = "sendCheck"
        /\ tasks' = [tasks EXCEPT ![t] =
              IF clients[tk.client].connected THEN [tk EXCEPT !.pc = "enqueue"]
              ELSE IF IsOpenclaw(tk.client) THEN [tk EXCEPT !.pc = "sendRegister"]
              ELSE SendReturn(tk, "err")]
        /\ UNCHANGED <<envVars, storeVars, netVars>>

\* openclaw/mod.rs 298-306: select! creates the Notified future and the sleep
Send_Register(t) ==
    /\ Running /\ tasks[t].pc = "sendRegister"
    /\ tasks' = [tasks EXCEPT ![t] = [@ EXCEPT !.pc = "sendWait", !.woken = FALSE,
                                               !.deadline = now + SendWaitMs]]
    /\ UNCHANGED <<envVars, storeVars, netVars>>

\* openclaw/mod.rs 299-303: woken by notify_waiters
Send_Notified(t) ==
    LET tk == tasks[t]
    IN  /\ Running /\ tk.pc = "sendWait" /\ tk.woken
        /\ tasks' = [tasks EXCEPT ![t] =
              IF clients[tk.client].connected THEN [tk EXCEPT !.pc = "enqueue"]
              ELSE SendReturn(tk, "err")]
        /\ UNCHANGED <<envVars, storeVars, netVars>>

\* openclaw/mod.rs 304-306: the 5 s sleep elapsed
Send_Timeout(t) ==
    LET tk == tasks[t]
    IN  /\ Running /\ tk.pc = "sendWait" /\ now >= tk.deadline
        /\ tasks' = [tasks EXCEPT ![t] = SendReturn(tk, "err")]
        /\ UNCHANGED <<envVars, storeVars, netVars>>

\* openclaw/mod.rs 310-315 and webhook/mod.rs 217-222: tx.send(data).await
\* on the client's channel (an error once the loop, which owns the receiver,
\* has exited), or the bail when send_tx is None
Send_Enqueue(t) ==
    LET tk == tasks[t]
        c == tk.client
    IN  /\ Running /\ tk.pc = "enqueue"
        /\ IF clients[c].send_tx /\ clients[c].loop # "exited"
           THEN /\ Len(clients[c].queue) < QueueCap
                /\ clients' = [clients EXCEPT ![c].queue = Append(@, Unwrap(tk.data))]
                /\ tasks' = [tasks EXCEPT ![t] =
                                SendReturn([tk EXCEPT !.sent = tk.data], "ok")]
           ELSE /\ clients' = clients
                /\ tasks' = [tasks EXCEPT ![t] = SendReturn(tk, "err")]
        /\ UNCHANGED <<envVars, storeVars, bridge, wire>>

HandlerStep(t) ==
    \/ Handle_WebhookMessage(t) \/ Handle_Forward(t) \/ Handle_OpenclawEvent(t)
    \/ Send_Check(t) \/ Send_Register(t) \/ Send_Notified(t) \/ Send_Timeout(t)
    \/ Send_Enqueue(t)

(***************************************************************************)
(* The connected clients' supervision loops (connection_loop and           *)
(* connect_and_read of openclaw/mod.rs and webhook/mod.rs).                *)
(***************************************************************************)
\* conn_notify.notify_waiters(): wakes the tasks waiting on client c
NotifyWaiters(tks, c) ==
    [t \in DOMAIN tks |->
        IF tks[t].pc \in {"sendWait", "connWait"} /\ tks[t].client = c
        THEN [tks[t] EXCEPT !.woken = TRUE] ELSE tks[t]]

\* openclaw/mod.rs 238-243, webhook/mod.rs 189-194: write one queued frame
Conn_Write(c) ==
    /\ Running /\ clients[c].loop = "connected" /\ Len(clients[c].queue) > 0
    /\ wire' = [wire EXCEPT ![c] = Append(@, Head(clients[c].queue))]
    /\ clients' = [clients EXCEPT ![c].queue = Tail(@)]
    /\ UNCHANGED <<envVars, storeVars, tasks, bridge>>

\* openclaw/mod.rs 216-250, webhook/mod.rs 167-201: close, read error or
\* end of stream; connected := false, notify_waiters, back to the loop
Conn_Drop(c) ==
    /\ Running /\ clients[c].loop = "connected" /\ faults < MaxFaults
    /\ faults' = faults + 1
    /\ clients' = [clients EXCEPT ![c] = [@ EXCEPT !.connected = FALSE,
                                                   !.loop = "backoff",
                                                   !.dropped = TRUE]]
    /\ tasks' = NotifyWaiters(tasks, c)
    /\ UNCHANGED <<now, ticks, crashed, storeVars, bridge, wire>>

\* openclaw/mod.rs 162-198, webhook/mod.rs 116-150: the delay elapsed and the
\* next attempt connected; upstream the handshake request is written first
Conn_Reconnect(c) ==
    /\ Running /\ clients[c].loop = "backoff"
    /\ clients' = [clients EXCEPT ![c] = [@ EXCEPT !.connected = TRUE,
                                                   !.loop = "connected"]]
    /\ wire' = [wire EXCEPT ![c] = IF IsOpenclaw(c) THEN Append(@, ConnectRequest) ELSE @]
    /\ tasks' = NotifyWaiters(tasks, c)
    /\ UNCHANGED <<envVars, storeVars, bridge>>

SpawnHandler(t, kind, frame) ==
    /\ LowestIdle(t)
    /\ tasks' = [tasks EXCEPT ![t] =
                    [IdleTask EXCEPT !.kind = kind, !.pc = "start", !.frame = frame,
                                     !.status = "run"]]

\* webhook/mod.rs 157-166 and main.rs 169-177: one task per downstream frame
Webhook_Frame(f) ==
    /\ Running /\ clients["wh"].loop = "connected"
    /\ \E t \in 1..MaxTasks : SpawnHandler(t, "webhook", f)
    /\ UNCHANGED <<envVars, storeVars, netVars>>

\* openclaw/mod.rs 205-215 and main.rs 161-166: one task per upstream frame
Openclaw_Frame(e) ==
    /\ Running /\ clients["oc"].loop = "connected"
    /\ \E t \in 1..MaxTasks : SpawnHandler(t, "event", e)
    /\ UNCHANGED <<envVars, storeVars, netVars>>

\* downstream frames the model feeds in
S_newHello == S_new \o <<" ">> \o S_hello
WebhookFrames ==
    {WebhookFrame(None, Some(S_m1), Some(S_hi), None, None, None),
     WebhookFrame(None, Some(S_m2), Some(S_hi), Some(<<" ">> \o S_S1), Some(S_dm), Some(S_u1)),
     WebhookFrame(None, Some(S_m1), Some(S_new), None, None, None),
     WebhookFrame(None, Some(S_m1), Some(S_newHello), Some(S_S1), None, None),
     WebhookFrame(None, Some(S_m1), Some(S_help), None, None, None),
     WebhookFrame(Some("session.list"), None, None, None, None, None),
     WebhookFrame(Some("event"), Some(S_m1), Some(S_hi), None, None, None),
     WebhookFrame(None, Some(S_m1), Some(<<>>), None, None, None),
     GarbageFrame}

\* upstream frames the model feeds in
TextItem(text) == [type |-> Some("text"), text |-> Some(text)]
UpstreamEvents ==
    {UpstreamEvent(None, Some("chat"), None, Some(S_S1), Some("final"), None,
                   Some(<<TextItem(S_hello)>>)),
     UpstreamEvent(None, Some("agent"), Some("assistant"), Some(S_S1), None,
                   Some([phase |-> None, text |-> Some(S_hi)]), None),
     UpstreamEvent(None, Some("agent"), Some("tool"), Some(S_S1), None, Some(NoData), None),
     UpstreamEvent(Some("tick"), None, None, None, None, None, None),
     GarbageEvent}

BridgeTick == \E d \in {SendWaitMs, CacheTtlMs} : Tick(d)

\* the state run_bridge reaches at main.rs 191: both connect() calls have
\* returned Ok, the upstream handshake has been written
InitBridge ==
    /\ now = 0 /\ ticks = 0 /\ faults = 0 /\ crashed = FALSE
    /\ file = <<>>
    /\ lock = [excl |-> 0, shared |-> {}]
    /\ cache = [data |-> EmptyStore, loaded_at |-> now - InitialCacheAgeMs]
    /\ nextSid = 1
    /\ committed = EmptyStore
    /\ tasks = [t \in TaskIds |-> IdleTask]
    /\ bridge \in BridgeWirings
    /\ clients = [c \in ClientIds |-> IF c \in LiveClients THEN ConnectedClient
                                      ELSE NewClient]
    /\ wire = [oc |-> <<ConnectRequest>>, wh |-> <<>>]

Next ==
    \/ \E f \in WebhookFrames : Webhook_Frame(f)
    \/ \E e \in UpstreamEvents : Openclaw_Frame(e)
    \/ \E t \in TaskIds : HandlerStep(t)
    \/ \E t \in TaskIds : StoreStep(t)
    \/ \E c \in LiveClients : Conn_Write(c) \/ Conn_Drop(c) \/ Conn_Reconnect(c)
    \/ BridgeTick
    \/ Crash

\* the bridge after start-up
Spec == InitBridge /\ [][Next]_vars

(***************************************************************************)
(* One handler on one frame: a Bridge assembled through its API            *)
(* (set_uid, set_session_scope, with or without set_session_store) and     *)
(* connected clients handles a single downstream frame or upstream event.  *)
(***************************************************************************)
S_t1 == <<"t", "1">>
S_t2 == <<"t", "2">>
S_foo == <<"/", "f", "o", "o">>

\* values of the optional string fields of a downstream frame
SessionValues == {None, Some(<<>>), Some(<<" ">>), Some(<<" ">> \o S_S1), Some(S_S1)}
PeerKindValues == {None, Some(<<" ">>), Some(S_dm)}
ChatTypeValues == {None, Some(<<" ">> \o S_group)}
PeerIdValues == {None, Some(<<" ">>)}
ChatIdValues == {None, Some(S_u1 \o <<" ">>)}
SenderIdValues == {None, Some(S_u2)}
TopicIdValues == {None, Some(<<>>), Some(<<" ">> \o S_t1)}
ThreadIdValues == {None, Some(<<>>), Some(S_t2)}

\* conversational frames: every combination of the key fields
ConversationalFrames ==
    {[WebhookFrame(None, Some(S_m1), Some(S_hi), s, pk, pid) EXCEPT
         !.chatType = ct, !.chatId = cid, !.senderId = sid,
         !.topicId = top, !.threadId = thr] :
       s \in SessionValues, pk \in PeerKindValues, pid \in PeerIdValues,
       ct \in ChatTypeValues, cid \in ChatIdValues, sid \in SenderIdValues,
       top \in TopicIdValues, thr \in ThreadIdValues}

\* command frames: local replies and forwards, with and without a session
CommandFrames ==
    {WebhookFrame(None, Some(S_m1), Some(c), s, Some(S_dm), Some(S_u1)) :
       c \in {S_help, <<" ">> \o S_version, <<" ">> \o S_foo \o <<" ">>, S_new},
       s \in SessionValues}

HandlerFrames == ConversationalFrames \cup CommandFrames \cup WebhookFrames

\* content items of a chat event
ContentItems ==
    {[type |-> Some("text"), text |-> Some(S_hi)],
     [type |-> Some("text"), text |-> None],
     [type |-> Some("image"), text |-> Some(S_hello)],
     [type |-> None, text |-> Some(S_hello)]}

ContentArrays ==
    {<<>>} \cup {<<a>> : a \in ContentItems}
    \cup {<<a, b>> : a \in ContentItems, b \in ContentItems}

ChatEvents ==
    {UpstreamEvent(None, Some("chat"), None, sk, st, None, items) :
       sk \in {None, Some(S_S1)},
       st \in {None, Some("final"), Some("delta"), Some("error"), Some("aborted")},
       items \in {None} \cup {Some(a) : a \in ContentArrays}}

AgentData ==
    {[phase |-> p, text |-> x] :
       p \in {None, Some("start"), Some("end"), Some("complete")},
       x \in {None, Some(<<>>), Some(S_hi)}}

AgentEvents ==
    {UpstreamEvent(None, Some("agent"), str, sk, None, d, None) :
       str \in {None, Some("lifecycle"), Some("assistant"), Some("tool"),
                Some("error")},
       sk \in {None, Some(S_S1)},
       d \in {None} \cup {Some(a) : a \in AgentData}}

HandlerEvents == ChatEvents \cup AgentEvents \cup UpstreamEvents

HandlerBridges ==
    {[wiring |-> "configured", session_store |-> st, scope |-> sc,
      uid |-> S_uid, agent_id |-> S_main] :
       st \in BOOLEAN, sc \in {"per-sender", "global"}}

\* the task main.rs 161-177 spawns for one inbound frame
HandlerTask(kind, frame) ==
    [IdleTask EXCEPT !.kind = kind, !.pc = "start", !.frame = frame, !.status = "run"]

InitHandler ==
    /\ now = 0 /\ ticks = 0 /\ faults = 0 /\ crashed = FALSE
    /\ file = <<>>
    /\ lock = [excl |-> 0, shared |-> {}]
    /\ cache = [data |-> EmptyStore, loaded_at |-> now - InitialCacheAgeMs]
    /\ nextSid = 1
    /\ committed = EmptyStore
    /\ \E first \in {HandlerTask("webhook", f) : f \in HandlerFrames}
                    \cup {HandlerTask("event", e) : e \in HandlerEvents} :
          tasks = [t \in TaskIds |-> IF t = 1 THEN first ELSE IdleTask]
    /\ bridge \in HandlerBridges
    /\ clients = [c \in ClientIds |-> IF c \in LiveClients THEN ConnectedClient
                                      ELSE NewClient]
    /\ wire = [oc |-> <<ConnectRequest>>, wh |-> <<>>]

\* the store is read once per frame, with the cache of Store::new, so the
\* cached branch of load is not taken; both connections stay up
NextHandler ==
    \/ Handle_WebhookMessage(1) \/ Handle_Forward(1) \/ Handle_OpenclawEvent(1)
    \/ Load_CacheMiss(1) \/ Load_LockShared(1) \/ Load_Read(1) \/ Load_ReadFail(1)
    \/ Load_CacheStore(1)
    \/ Update_Apply(1)
    \/ Save_Open(1) \/ Save_LockExclusive(1) \/ Save_LockFail(1)
    \/ Save_Write(1) \/ Save_WriteFail(1) \/ Save_CacheStore(1)
    \/ Send_Check(1) \/ Send_Enqueue(1)
    \/ \E c \in LiveClients : Conn_Write(c)

SpecHandler == InitHandler /\ [][NextHandler]_vars

(***************************************************************************)
(* One client with its supervision loop: connect(), send(), close() and    *)
(* connection_loop / connect_and_read of openclaw/mod.rs and               *)
(* webhook/mod.rs, with the reconnect delay, the shutdown channel and      *)
(* ping frames.  The client record carries, besides the fields of          *)
(* NewClient:                                                              *)
(*   shutdown_tx  Client.shutdown_tx is Some                               *)
(*   shutdown     a message is waiting in the shutdown channel             *)
(*   delay        reconnect_delay, milliseconds                            *)
(*   until        the instant the backoff sleep completes                  *)
(*   fails        consecutive attempts that returned Err, counted up to    *)
(*                MaxFails                                                 *)
(*   first        outcome of the first attempt after connect()             *)
(*   conn         connections established so far (names the connection)    *)
(*   ping         payload of a ping frame read and not yet answered        *)
(*   pings        ping frames read so far                                  *)
(***************************************************************************)
InitialDelayMs(c) == IF IsOpenclaw(c) THEN OpenclawInitialDelayMs ELSE WebhookInitialDelayMs

\* a frame written on the transport by connection number n
WireFrame(n, kind, data) == [conn |-> n, kind |-> kind, data |-> data]

\* Client::new
NewSupClient(c) ==
    [connected |-> FALSE, send_tx |-> FALSE, queue |-> <<>>, loop |-> "none",
     dropped |-> FALSE, shutdown_tx |-> FALSE, shutdown |-> FALSE,
     delay |-> InitialDelayMs(c), until |-> 0, fails |-> 0, first |-> "none",
     conn |-> 0, ping |-> None, pings |-> 0]

\* a client whose connect() returned Ok and whose callers have since queued
\* `backlog` frames that the loop has not yet written
ConnectedSupClient(c, backlog) ==
    [NewSupClient(c) EXCEPT !.connected = TRUE, !.send_tx = TRUE,
                            !.queue = [i \in 1..backlog |-> S_hi],
                            !.loop = "connected", !.shutdown_tx = TRUE,
                            !.first = "ok", !.conn = 1]

\* openclaw/mod.rs 154-156, webhook/mod.rs 107-109: the Err arm
DelayAfterErr(d) == IF d < MaxReconnectDelayMs THEN 2 * d ELSE d

\* the loop has a shutdown message to receive (both select! blocks poll
\* shutdown_rx.recv(): openclaw/mod.rs 134-137 and 164-166)
ShutdownObserved(cl) == cl.shutdown /\ cl.loop \in {"attempt", "connected", "backoff"}

\* the payload written in answer to a ping
PongPayload_Empty(data) == <<>>

PongPayload(data) == data

\* the loop's state after connect_and_read returned Ok(()): connected :=
\* false (247), reconnect_delay := initial (149-151), then the sleep (167)
AfterConnection(c, cl) ==
    [cl EXCEPT !.connected = FALSE, !.loop = "backoff", !.dropped = TRUE,
               !.delay = InitialDelayMs(c), !.until = now + InitialDelayMs(c),
               !.fails = 0, !.ping = None]

connVars == <<ticks, crashed, storeVars, bridge>>

\* the transport opened but the connect request is not written
Loop_AttemptOk_NoHandshake(c) ==
    LET cl == clients[c]
    IN  /\ cl.loop = "attempt"
        /\ clients' = [clients EXCEPT ![c] =
              [cl EXCEPT !.connected = TRUE, !.loop = "connected",
                         !.conn = cl.conn + 1,
                         !.first = IF cl.first = "pending" THEN "ok" ELSE cl.first]]
        /\ tasks' = NotifyWaiters(tasks, c)
        /\ UNCHANGED <<now, faults, wire, connVars>>

\* openclaw/mod.rs 190-198, webhook/mod.rs 143-150: the transport opened
\* (and, upstream, the connect request was written)
Loop_AttemptOk(c) ==
    LET cl == clients[c]
    IN  /\ cl.loop = "attempt"
        /\ clients' = [clients EXCEPT ![c] =
              [cl EXCEPT !.connected = TRUE, !.loop = "connected",
                         !.conn = cl.conn + 1,
                         !.first = IF cl.first = "pending" THEN "ok" ELSE cl.first]]
        /\ wire' = [wire EXCEPT ![c] =
              IF IsOpenclaw(c)
              THEN Append(@, WireFrame(cl.conn + 1, "connect", ConnectRequest))
              ELSE @]
        /\ tasks' = NotifyWaiters(tasks, c)
        /\ UNCHANGED <<now, faults, connVars>>

\* openclaw/mod.rs 190 and 195 (`?`), 153-158; webhook/mod.rs 143, 106-111:
\* connect_and_read returned Err, the delay is doubled, then the sleep
Loop_AttemptFail(c) ==
    LET cl == clients[c]
    IN  /\ cl.loop = "attempt"
        /\ clients' = [clients EXCEPT ![c] =
              [cl EXCEPT !.loop = "backoff",
                         !.delay = DelayAfterErr(cl.delay),
                         !.until = now + DelayAfterErr(cl.delay),
                         !.fails = IF cl.fails < MaxFails THEN cl.fails + 1
                                   ELSE MaxFails,
                         !.first = IF cl.first = "pending" THEN "failed" ELSE cl.first]]
        /\ UNCHANGED <<now, faults, tasks, wire, connVars>>

\* openclaw/mod.rs 167-169, webhook/mod.rs 120-122: the sleep completed
Loop_BackoffElapsed(c) ==
    /\ clients[c].loop = "backoff" /\ now >= clients[c].until
    /\ clients' = [clients EXCEPT ![c].loop = "attempt"]
    /\ UNCHANGED <<now, faults, tasks, wire, connVars>>

\* openclaw/mod.rs 134-137, 164-166 and 173: shutdown received, the loop ends
Loop_Shutdown(c) ==
    /\ ShutdownObserved(clients[c])
    /\ clients' = [clients EXCEPT ![c] =
          [@ EXCEPT !.loop = "exited", !.connected = FALSE, !.shutdown = FALSE,
                    !.ping = None]]
    /\ UNCHANGED <<now, faults, tasks, wire, connVars>>

\* openclaw/mod.rs 238-239, webhook/mod.rs 189-190: one queued frame written
Loop_Write(c) ==
    LET cl == clients[c]
    IN  /\ cl.loop = "connected" /\ IsNone(cl.ping) /\ Len(cl.queue) > 0
        /\ wire' = [wire EXCEPT ![c] =
                       Append(@, WireFrame(cl.conn, "binary", Head(cl.queue)))]
        /\ clients' = [clients EXCEPT ![c].queue = Tail(@)]
        /\ UNCHANGED <<now, faults, tasks, connVars>>

\* openclaw/mod.rs 216-219 and 227-234 (close frame, read error, end of
\* stream) and 239-242 (a queued frame could not be written), then 247-250
Loop_ConnectionEnded(c, writing) ==
    LET cl == clients[c]
    IN  /\ cl.loop = "connected" /\ IsNone(cl.ping) /\ faults < MaxFaults
        /\ writing => Len(cl.queue) > 0
        /\ faults' = faults + 1
        /\ clients' = [clients EXCEPT ![c] =
              [AfterConnection(c, cl) EXCEPT
                  !.queue = IF writing THEN Tail(cl.queue) ELSE cl.queue]]
        /\ tasks' = NotifyWaiters(tasks, c)
        /\ UNCHANGED <<now, wire, connVars>>

\* openclaw/mod.rs 220, webhook/mod.rs 171: a ping frame was read
Loop_Ping(c, data) ==
    LET cl == clients[c]
    IN  /\ cl.loop = "connected" /\ IsNone(cl.ping) /\ cl.pings < MaxPings
        /\ clients' = [clients EXCEPT ![c] =
              [cl EXCEPT !.ping = Some(data), !.pings = cl.pings + 1]]
        /\ UNCHANGED <<now, faults, tasks, wire, connVars>>

\* openclaw/mod.rs 221, webhook/mod.rs 172: write.send(Message::Pong(data))
Loop_Pong(c) ==
    LET cl == clients[c]
    IN  /\ cl.loop = "connected" /\ IsSome(cl.ping)
        /\ wire' = [wire EXCEPT ![c] =
              Append(@, WireFrame(cl.conn, "pong", PongPayload(Unwrap(cl.ping))))]
        /\ clients' = [clients EXCEPT ![c].ping = None]
        /\ UNCHANGED <<now, faults, tasks, connVars>>

\* openclaw/mod.rs 221-224 and 247-250, webhook/mod.rs 172-175 and 198-201:
\* the pong could not be written
Loop_PongFail(c) ==
    LET cl == clients[c]
    IN  /\ cl.loop = "connected" /\ IsSome(cl.ping) /\ faults < MaxFaults
        /\ faults' = faults + 1
        /\ clients' = [clients EXCEPT ![c] = AfterConnection(c, cl)]
        /\ tasks' = NotifyWaiters(tasks, c)
        /\ UNCHANGED <<now, wire, connVars>>

(***************************************************************************)
(* Callers of the client API.  connect and close take `&mut self`: they    *)
(* run while no other call on the client is in progress.                   *)
(***************************************************************************)
ApiCall(t, op, c) ==
    /\ LowestIdle(t)
    /\ tasks' = [tasks EXCEPT ![t] =
          [IdleTask EXCEPT !.kind = "api", !.op = op, !.client = c, !.status = "run",
                           !.pc = CASE op = "connect" -> "connSpawn"
                                    [] op = "send" -> "sendCheck"
                                    [] op = "close" -> "closeSignal",
                           !.data = IF op = "send" THEN Some(S_hi) ELSE None]]

NoCallRunning == \A u \in TaskIds : tasks[u].pc \in {"idle", "done"}
NoExclusiveCallRunning ==
    \A u \in TaskIds : tasks[u].pc \in {"idle", "done"} \/ tasks[u].op = "send"

Call_Connect(t, c) ==
    /\ NoCallRunning /\ \A d \in LiveClients : clients[d].loop = "none"
    /\ ApiCall(t, "connect", c)
    /\ UNCHANGED <<envVars, storeVars, netVars>>

Call_Send(t, c) ==
    /\ NoExclusiveCallRunning /\ clients[c].send_tx
    /\ ApiCall(t, "send", c)
    /\ UNCHANGED <<envVars, storeVars, netVars>>

Call_Close(t, c) ==
    /\ NoCallRunning /\ clients[c].loop # "none"
    /\ ApiCall(t, "close", c)
    /\ UNCHANGED <<envVars, storeVars, netVars>>

\* openclaw/mod.rs 75-101, webhook/mod.rs 48-63: the channels are created
\* and the loop is spawned
Connect_Spawn(t) ==
    LET tk == tasks[t]
        c == tk.client
    IN  /\ tk.pc = "connSpawn"
        /\ clients' = [clients EXCEPT ![c] =
              [@ EXCEPT !.shutdown_tx = TRUE, !.send_tx = TRUE, !.loop = "attempt",
                        !.first = "pending"]]
        /\ tasks' = [tasks EXCEPT ![t].pc = "connRegister"]
        /\ UNCHANGED <<envVars, storeVars, bridge, wire>>

\* openclaw/mod.rs 104-116, webhook/mod.rs 66-78: select! creates the
\* Notified future and the 5 s sleep
Connect_Register(t) ==
    /\ tasks[t].pc = "connRegister"
    /\ tasks' = [tasks EXCEPT ![t] = [@ EXCEPT !.pc = "connWait", !.woken = FALSE,
                                               !.deadline = now + ConnectWaitMs]]
    /\ UNCHANGED <<envVars, storeVars, netVars>>

\* openclaw/mod.rs 105-112, webhook/mod.rs 67-73: woken by notify_waiters
Connect_Notified(t) ==
    LET tk == tasks[t]
    IN  /\ tk.pc = "connWait" /\ tk.woken
        /\ tasks' = [tasks EXCEPT ![t] =
              [tk EXCEPT !.pc = "done", !.woken = FALSE, !.deadline = 0,
                         !.status = IF clients[tk.client].connected THEN "ok" ELSE "err",
                         !.failedIn = IF clients[tk.client].connected THEN "none"
                                      ELSE "connect"]]
        /\ UNCHANGED <<envVars, storeVars, netVars>>

\* a connect() whose timeout also stops the loop it spawned
Connect_Timeout_StopsLoop(t) ==
    LET tk == tasks[t]
    IN  /\ tk.pc = "connWait" /\ now >= tk.deadline
        /\ tasks' = [tasks EXCEPT ![t] =
              [tk EXCEPT !.pc = "done", !.woken = FALSE, !.deadline = 0,
                         !.status = "err", !.failedIn = "timeout"]]
        /\ clients' = [clients EXCEPT ![tk.client] =
              [@ EXCEPT !.loop = "exited", !.connected = FALSE]]
        /\ UNCHANGED <<envVars, storeVars, bridge, wire>>

\* openclaw/mod.rs 113-115, webhook/mod.rs 75-77: the 5 s sleep completed
Connect_Timeout(t) ==
    LET tk == tasks[t]
    IN  /\ tk.pc = "connWait" /\ now >= tk.deadline
        /\ tasks' = [tasks EXCEPT ![t] =
              [tk EXCEPT !.pc = "done", !.woken = FALSE, !.deadline = 0,
                         !.status = "err", !.failedIn = "timeout"]]
        /\ UNCHANGED <<envVars, storeVars, netVars>>

\* openclaw/mod.rs 342-344, webhook/mod.rs 229-231: take the shutdown
\* sender and send on it (capacity 1, one sender: the send does not wait)
Close_Signal(t) ==
    LET tk == tasks[t]
        c == tk.client
    IN  /\ tk.pc = "closeSignal"
        /\ clients' = [clients EXCEPT ![c] =
              [@ EXCEPT !.shutdown_tx = FALSE,
                        !.shutdown = @ \/ clients[c].shutdown_tx]]
        /\ tasks' = [tasks EXCEPT ![t] =
              [tk EXCEPT !.pc = "closeReturn", !.sent = IF clients[c].shutdown_tx
                                                        THEN Some("shutdown") ELSE None]]
        /\ UNCHANGED <<envVars, storeVars, bridge, wire>>

\* openclaw/mod.rs 346-348, webhook/mod.rs 233-235: connected := false, Ok
Close_Return(t) ==
    LET tk == tasks[t]
    IN  /\ tk.pc = "closeReturn"
        /\ clients' = [clients EXCEPT ![tk.client].connected = FALSE]
        /\ tasks' = [tasks EXCEPT ![t] = [tk EXCEPT !.pc = "done", !.status = "ok"]]
        /\ UNCHANGED <<envVars, storeVars, bridge, wire>>

ConnectStep(t) ==
    \/ Connect_Spawn(t) \/ Connect_Register(t) \/ Connect_Notified(t)
    \/ Connect_Timeout(t)

CloseStep(t) == Close_Signal(t) \/ Close_Return(t)

SendStep(t) ==
    \/ Send_Check(t) \/ Send_Register(t) \/ Send_Notified(t) \/ Send_Timeout(t)
    \/ Send_Enqueue(t)

\* instants at which a pending sleep completes
PendingDeadlines ==
    {tasks[t].deadline : t \in {u \in TaskIds : tasks[u].pc \in {"sendWait", "connWait"}}}
    \cup {clients[c].until : c \in {d \in LiveClients : clients[d].loop = "backoff"}}

\* Time passes until the next pending sleep completes.  The clock of this
\* specification is read only to set and test sleeps, so the passage of
\* `d - now` is recorded by bringing every pending sleep that much nearer.
Nearer(deadline, by) == IF deadline - by <= now THEN now ELSE deadline - by

\* every task and every loop is waiting: for a sleep, for a notification,
\* for room in a full queue, for the peer.  Polling a ready future takes no
\* time on the scale of the sleeps.
TaskWaits(tk) ==
    \/ tk.pc \in {"idle", "done"}
    \/ tk.pc \in {"sendWait", "connWait"} /\ ~tk.woken /\ tk.deadline > now
    \/ /\ tk.pc = "enqueue" /\ clients[tk.client].send_tx
       /\ clients[tk.client].loop # "exited"
       /\ Len(clients[tk.client].queue) >= QueueCap

LoopWaits(cl) ==
    /\ ~ShutdownObserved(cl)
    /\ cl.loop = "backoff" => cl.until > now
    /\ cl.loop = "connected" => (IsNone(cl.ping) /\ Len(cl.queue) = 0)

Quiescent ==
    /\ \A t \in TaskIds : TaskWaits(tasks[t])
    /\ \A c \in LiveClients : LoopWaits(clients[c])

Conn_TimePasses ==
    /\ Quiescent
    /\ \E d \in PendingDeadlines :
          /\ d > now
          /\ \A e \in PendingDeadlines : e > now => d <= e
          /\ tasks' = [t \in TaskIds |->
                IF tasks[t].pc \in {"sendWait", "connWait"}
                THEN [tasks[t] EXCEPT !.deadline = Nearer(@, d - now)]
                ELSE tasks[t]]
          /\ clients' = [c \in LiveClients |->
                IF clients[c].loop = "backoff"
                THEN [clients[c] EXCEPT !.until = Nearer(@, d - now)]
                ELSE clients[c]]
    /\ UNCHANGED <<envVars, storeVars, bridge, wire>>

InitClients(cls, wr) ==
    /\ now = 0 /\ ticks = 0 /\ faults = 0 /\ crashed = FALSE
    /\ file = <<>>
    /\ lock = [excl |-> 0, shared |-> {}]
    /\ cache = [data |-> EmptyStore, loaded_at |-> now - InitialCacheAgeMs]
    /\ nextSid = 1
    /\ committed = EmptyStore
    /\ tasks = [t \in TaskIds |-> IdleTask]
    /\ bridge = [wiring |-> "none", session_store |-> FALSE]
    /\ clients = cls
    /\ wire = wr

\* both clients as constructed; connect() is called on one of them
InitConn ==
    InitClients([c \in LiveClients |-> NewSupClient(c)], [c \in LiveClients |-> <<>>])

\* connect(), close() and the supervision loop
NextConn ==
    \/ \E t \in TaskIds, c \in LiveClients : Call_Connect(t, c)
    \/ \E t \in TaskIds, c \in LiveClients : Call_Close(t, c)
    \/ \E t \in TaskIds : ConnectStep(t)
    \/ \E t \in TaskIds : CloseStep(t)
    \/ \E c \in LiveClients : Loop_AttemptOk(c) \/ Loop_AttemptFail(c)
    \/ \E c \in LiveClients : Loop_ConnectionEnded(c, FALSE)
    \/ \E c \in LiveClients : Loop_BackoffElapsed(c) \/ Loop_Shutdown(c)
    \/ \E c \in LiveClients, data \in {S_hi, S_hello} : Loop_Ping(c, data)
    \/ \E c \in LiveClients : Loop_Pong(c) \/ Loop_PongFail(c)
    \/ Conn_TimePasses

\* Tasks are polled until they return, select! takes a branch that stays
\* ready, sleeps complete, a connection attempt and a socket write settle;
\* nothing is assumed of how they settle: an attempt may fail every time.
FairLoop ==
    /\ \A c \in LiveClients : WF_vars(Loop_AttemptOk(c) \/ Loop_AttemptFail(c))
    /\ \A c \in LiveClients : WF_vars(Loop_BackoffElapsed(c))
    /\ \A c \in LiveClients : WF_vars(Loop_Shutdown(c))
    /\ \A c \in LiveClients : WF_vars(Loop_Write(c) \/ Loop_ConnectionEnded(c, TRUE))
    /\ \A c \in LiveClients : WF_vars(Loop_Pong(c) \/ Loop_PongFail(c))
    /\ WF_vars(Conn_TimePasses)

SpecConn ==
    /\ InitConn /\ [][NextConn]_vars
    /\ \A t \in TaskIds : WF_vars(ConnectStep(t) \/ CloseStep(t))
    /\ FairLoop

\* one connected client whose callers have queued frames faster than the
\* loop wrote them: the outbound queue is one frame short of full
InitSend ==
    \E live \in LiveClients :
        InitClients([c \in LiveClients |->
                        IF c = live THEN ConnectedSupClient(c, QueueCap - 1)
                        ELSE NewSupClient(c)],
                    [c \in LiveClients |->
                        IF c = live /\ IsOpenclaw(c)
                        THEN <<WireFrame(1, "connect", ConnectRequest)>> ELSE <<>>])

\* send() and the supervision loop, with a peer that cannot be reached
\* again once the connection has ended: no attempt connects, so no waiting
\* send() is notified (Send_Notified has no occasion to run)
NextSend ==
    \/ \E t \in TaskIds, c \in LiveClients : Call_Send(t, c)
    \/ \E t \in TaskIds : Send_Check(t) \/ Send_Register(t) \/ Send_Timeout(t)
    \/ \E t \in TaskIds : Send_Enqueue(t)
    \/ \E c \in LiveClients : Loop_Write(c)
    \/ \E c \in LiveClients, writing \in BOOLEAN : Loop_ConnectionEnded(c, writing)
    \/ \E c \in LiveClients : Loop_AttemptFail(c)
    \/ \E c \in LiveClients : Loop_BackoffElapsed(c)
    \/ Conn_TimePasses

SpecSend ==
    /\ InitSend /\ [][NextSend]_vars
    /\ \A t \in TaskIds : WF_vars(SendStep(t))
    /\ FairLoop

\* connect() and send() on clients whose connection is lost and established
\* again while frames are queued
NextReconnect ==
    \/ \E t \in TaskIds, c \in LiveClients : Call_Connect(t, c) \/ Call_Send(t, c)
    \/ \E t \in TaskIds : ConnectStep(t) \/ SendStep(t)
    \/ \E c \in LiveClients : Loop_AttemptOk(c) \/ Loop_AttemptFail(c)
    \/ \E c \in LiveClients : Loop_BackoffElapsed(c) \/ Loop_Write(c)
    \/ \E c \in LiveClients, writing \in BOOLEAN : Loop_ConnectionEnded(c, writing)
    \/ Conn_TimePasses

SpecReconnect ==
    /\ InitConn /\ [][NextReconnect]_vars
    /\ \A t \in TaskIds : WF_vars(ConnectStep(t) \/ SendStep(t))
    /\ FairLoop

(***************************************************************************)
(* Properties of the session store.                                        *)
(***************************************************************************)
\* the mapping a cache-bypassed load would read from the store file
Persisted == ParseStore(file)

IsUpdateCall(tk) == tk.kind = "op" /\ tk.op \in {"record", "route", "reset"}
ReturnedOk(tk) == tk.pc = "done" /\ tk.status = "ok"
NoResetIssued == \A t \in TaskIds : tasks[t].op # "reset"

\* C6: with no reset issued, the sessionId stored under a key never changes
\* once the key has an entry, for every interleaving of record_inbound_meta,
\* update_last_route and load on one store.
C6_SessionIdStableWithoutReset ==
    [][NoResetIssued =>
         \A k \in (DOMAIN committed) \cap (DOMAIN committed') :
             committed'[k].session_id = committed[k].session_id]_vars

\* C7: the updatedAt stored under a key is non-decreasing over any sequence
\* of store operations, concurrent handlers included (the clock `now` never
\* goes back).
C7_UpdatedAtNonDecreasing ==
    [][\A k \in (DOMAIN committed) \cap (DOMAIN committed') :
           committed'[k].updated_at >= committed[k].updated_at]_vars

\* C8: in a sequence of store calls, a reset of key k that returned Ok stored a
\* sessionId different from the one the store file held for k at start-up and
\* from the sessionId of every entry produced for k before it, the store file
\* holds that id while the reset is the last call, and a record_inbound_meta
\* on k that directly follows it returns an entry with the same sessionId,
\* which the store file holds while that call is the last one.
C8_ResetStoresFreshSessionId ==
    \A i \in TaskIds :
        (IsUpdateCall(tasks[i]) /\ tasks[i].op = "reset" /\ ReturnedOk(tasks[i])) =>
            LET k == tasks[i].key
                sid == Unwrap(tasks[i].entry).session_id
            IN  /\ k \in DOMAIN PriorStore => sid # PriorStore[k].session_id
                /\ \A j \in TaskIds :
                       (j < i /\ tasks[j].key = k /\ IsSome(tasks[j].entry)) =>
                           Unwrap(tasks[j].entry).session_id # sid
                /\ (\A j \in TaskIds : j > i => tasks[j].pc = "idle") =>
                       (k \in DOMAIN Persisted /\ Persisted[k].session_id = sid)
                /\ \A j \in TaskIds :
                       (j = i + 1 /\ tasks[j].op = "record" /\ tasks[j].key = k
                        /\ ReturnedOk(tasks[j])) =>
                           /\ Unwrap(tasks[j].entry).session_id = sid
                           /\ (\A u \in TaskIds : u > j => tasks[u].pc = "idle") =>
                                  (k \in DOMAIN Persisted /\ Persisted[k].session_id = sid)

\* C8 witness: the store file held an entry for a key, a reset of that key
\* returned Ok, and the record_inbound_meta on the key that followed it
\* returned Ok.
C8_Witness ==
    /\ tasks[1].key \in DOMAIN PriorStore
    /\ IsUpdateCall(tasks[1]) /\ tasks[1].op = "reset" /\ ReturnedOk(tasks[1])
    /\ IsUpdateCall(tasks[2]) /\ tasks[2].op = "record" /\ ReturnedOk(tasks[2])
    /\ tasks[2].key = tasks[1].key

\* C9: when two update_entry / record_inbound_meta calls on different keys
\* have both returned Ok and no call is in progress, the persisted mapping
\* contains both resulting entries.
C9_ConcurrentWritersKeepBothEntries ==
    \A i, j \in TaskIds :
        (/\ i # j /\ ~SomeTaskRunning
         /\ IsUpdateCall(tasks[i]) /\ ReturnedOk(tasks[i])
         /\ IsUpdateCall(tasks[j]) /\ ReturnedOk(tasks[j])
         /\ tasks[i].key # tasks[j].key) =>
            /\ tasks[i].key \in DOMAIN Persisted
            /\ Persisted[tasks[i].key] = Unwrap(tasks[i].entry)
            /\ tasks[j].key \in DOMAIN Persisted
            /\ Persisted[tasks[j].key] = Unwrap(tasks[j].entry)

\* the last store call is a save that did not complete
SaveIncomplete(t) ==
    /\ \A u \in TaskIds : u > t => tasks[u].pc = "idle"
    /\ \/ tasks[t].failedIn = "save"
       \/ crashed /\ tasks[t].pc \in {"saveLock", "saveWrite"}

\* the last store call is a save that completed
SaveComplete(t) ==
    /\ \A u \in TaskIds : u > t => tasks[u].pc = "idle"
    /\ IsUpdateCall(tasks[t])
    /\ tasks[t].pc = "saveCache" \/ ReturnedOk(tasks[t])

\* C10: a save that does not complete (write or lock error, or the process
\* stopping between truncation and the end of the write) leaves the store
\* file holding the previously committed mapping, and after a successful
\* save the file is a valid JSON object.
C10_IncompleteSaveKeepsCommitted ==
    \A t \in TaskIds :
        /\ SaveIncomplete(t) => Persisted = committed
        /\ SaveComplete(t) => IsJsonStore(file)

\* a task leaves the start of load()
LoadDecides(t) == tasks[t].pc = "load" /\ tasks'[t].pc # "load"

\* C11: a load() called while the cached snapshot is younger than the TTL
\* returns the cached mapping and neither opens, locks nor reads the file (the
\* file, the lock and the cache are as before and the call goes on with the
\* cached mapping); a load() called when the TTL has elapsed takes the shared
\* lock, reads the file while holding it, and stores what it read in the
\* cache with the time of the refresh.
C11_LoadUsesCacheWithinTtl ==
    [][\A t \in TaskIds :
          /\ LoadDecides(t) =>
                IF now - cache.loaded_at < CacheTtlMs
                THEN /\ tasks'[t].store = cache.data
                     /\ tasks'[t].pc \notin {"loadLock", "loadRead", "loadCache"}
                     /\ file' = file /\ lock' = lock /\ cache' = cache
                ELSE tasks'[t].pc = "loadLock"
          /\ tasks[t].pc = "loadRead" => t \in lock.shared
          /\ (tasks[t].pc = "loadRead" /\ tasks'[t].pc = "loadCache") =>
                tasks'[t].store = ParseStore(file)
          /\ (tasks[t].pc = "loadCache" /\ tasks'[t].pc # "loadCache") =>
                cache' = [data |-> tasks[t].store, loaded_at |-> now]]_vars

\* C11 witness: the first load() found the initial snapshot expired and
\* refreshed the cache from the file; a second load(), one millisecond
\* later, returned the cached mapping and left the cache as it was.
C11_Witness ==
    /\ tasks[1].op = "load" /\ ReturnedOk(tasks[1])
    /\ tasks[2].op = "load" /\ ReturnedOk(tasks[2])
    /\ now = 1 /\ cache.loaded_at = 0
    /\ tasks[2].store = cache.data /\ cache.data = PriorStore

\* C12: a load() that goes to a store file whose content is empty or does not
\* parse as the session mapping, with no I/O failure, returns Ok with an empty
\* mapping.
C12_UnparsableFileLoadsAsEmpty ==
    (/\ tasks[1].kind = "op" /\ tasks[1].op = "load" /\ tasks[1].pc = "done"
     /\ \A u \in TaskIds : u > 1 => tasks[u].pc = "idle"
     /\ faults = 0 /\ ~crashed
     /\ ~IsJsonStore(file))
    => (tasks[1].status = "ok" /\ tasks[1].store = EmptyStore)

\* C13: when an update has returned Ok, having saved mapping m, and the next
\* call reads the store file without an I/O failure, what that call reads
\* is m.
C13_SaveLoadRoundTrip ==
    [][\A i, j \in TaskIds :
          (/\ j = i + 1
           /\ IsUpdateCall(tasks[i]) /\ ReturnedOk(tasks[i])
           /\ tasks[j].pc = "loadRead" /\ tasks'[j].pc = "loadCache")
          => (ValidUtf8(file) /\ tasks'[j].store = tasks[i].store)]_vars

\* C13 witness: record_inbound_meta with a full delivery context returned Ok,
\* the cache expired, and the load() that followed has read the file.
C13_Witness ==
    /\ tasks[1].op = "record" /\ ReturnedOk(tasks[1])
    /\ tasks[2].op = "load" /\ tasks[2].pc = "loadCache"
    /\ tasks[2].store = tasks[1].store
    /\ IsSome(tasks[2].store[tasks[1].key].delivery_context)

\* the last-route fields and the DeliveryContext field each is set from
RouteFieldOf ==
    [last_channel |-> "channel", last_to |-> "to",
     last_account_id |-> "account_id", last_thread_id |-> "thread_id"]

\* C14: the entry update_last_route(key, ctx) produces has each last-route
\* field equal to the ctx value where ctx has one and equal to the existing
\* entry's value where ctx has none, and has the existing entry's session_id,
\* delivery_context and last inbound message id.
C14_UpdateLastRouteSetsPresentFields ==
    [][\A t \in TaskIds :
          (tasks[t].op = "route" /\ tasks[t].pc = "apply" /\ tasks'[t].pc = "saveOpen") =>
              LET existing == StoreGet(tasks[t].store, tasks[t].key)
                  e == Unwrap(tasks'[t].entry)
                  ctx == tasks[t].ctx
              IN  /\ \A f \in DOMAIN RouteFieldOf :
                         IF IsSome(ctx[RouteFieldOf[f]]) THEN e[f] = ctx[RouteFieldOf[f]]
                         ELSE IsSome(existing) => e[f] = Unwrap(existing)[f]
                  /\ IsSome(existing) =>
                         /\ e.session_id = Unwrap(existing).session_id
                         /\ e.delivery_context = Unwrap(existing).delivery_context
                         /\ e.webhook_message_id = Unwrap(existing).webhook_message_id]_vars

(***************************************************************************)
(* Properties of the bridge.                                               *)
(***************************************************************************)
RunBridgeWiring == bridge.wiring = "run_bridge"
Undisturbed == ~crashed /\ faults = 0
HandlerDone(tk, kind) == tk.kind = kind /\ tk.pc = "done"

\* the frames queued for or written on the transport of live client c
Outbound(c) ==
    {clients[c].queue[i] : i \in 1..Len(clients[c].queue)}
    \cup {wire[c][i] : i \in 1..Len(wire[c])}

IsAgentRequestFor(r, message, session_key) ==
    r.kind = "agent" /\ r.message = message /\ r.sessionKey = session_key

\* C1: as wired by run_bridge, with both clients connected and the upstream
\* connection never lost, a conversational downstream frame whose handler has
\* returned has produced one agent request, queued for or written on the
\* upstream transport, whose message is the frame's content and whose
\* sessionKey is the resolved key.
C1_ConversationalFrameReachesUpstream ==
    \A t \in TaskIds :
        (/\ RunBridgeWiring /\ Undisturbed
         /\ HandlerDone(tasks[t], "webhook") /\ tasks[t].path = "conversational")
        => \E r \in Outbound("oc") :
               IsAgentRequestFor(r, Unwrap(tasks[t].frame.content), tasks[t].key)

\* C2: as wired by run_bridge, with the downstream connection never lost, an
\* upstream frame for which the translator yields an output and whose handler
\* has returned has that output queued for or written on the downstream
\* transport.
C2_TranslatedEventReachesDownstream ==
    \A t \in TaskIds :
        (/\ RunBridgeWiring /\ Undisturbed
         /\ HandlerDone(tasks[t], "event")
         /\ IsSome(openclaw_event_output(tasks[t].frame)))
        => Unwrap(openclaw_event_output(tasks[t].frame)) \in Outbound("wh")

IsResetFrame(f) ==
    /\ ParsesAsWebhookMessage(f) /\ ~is_session_control_message(f)
    /\ IsNone(f.type)
    /\ \E i \in DOMAIN DEFAULT_RESET_TRIGGERS :
           Trim(Unwrap(f.content)) = DEFAULT_RESET_TRIGGERS[i]

\* C3: with a session store set, once the handler of a frame whose trimmed
\* content is exactly "/new" or "/reset" has returned, the reset of the entry
\* under the resolved key has been carried out and the store holds an entry
\* under that key.
C3_ResetTriggerReplacesEntry ==
    \A t \in TaskIds :
        (/\ bridge.session_store /\ Undisturbed
         /\ HandlerDone(tasks[t], "webhook") /\ IsResetFrame(tasks[t].frame))
        => LET k == resolve_session_key(bridge.agent_id, bridge.scope, tasks[t].frame)
           IN  tasks[t].resetOk = "ok" /\ k \in DOMAIN Persisted

\* C4: with a session store set, once the handler of the frame "/new hello"
\* has returned, the entry has been reset and the request handed to the
\* upstream client carries the remainder "hello" as its message.
C4_TriggerWithRemainderResetsAndForwards ==
    \A t \in TaskIds :
        (/\ bridge.session_store /\ Undisturbed
         /\ HandlerDone(tasks[t], "webhook")
         /\ ParsesAsWebhookMessage(tasks[t].frame)
         /\ tasks[t].frame.content = Some(S_newHello))
        => /\ tasks[t].resetOk = "ok"
           /\ IsSome(tasks[t].sent) /\ Unwrap(tasks[t].sent).message = S_hello

\* C5: as wired by run_bridge, once the handler of a conversational frame has
\* returned, the store holds an entry under the resolved key whose last
\* inbound message id is the frame's id and whose delivery context is the one
\* derived from the frame.
C5_InboundMetaRecorded ==
    \A t \in TaskIds :
        (/\ RunBridgeWiring /\ Undisturbed
         /\ HandlerDone(tasks[t], "webhook") /\ tasks[t].path = "conversational")
        => /\ tasks[t].key \in DOMAIN Persisted
           /\ Persisted[tasks[t].key].webhook_message_id = tasks[t].frame.id
           /\ Persisted[tasks[t].key].delivery_context
                  = Some(delivery_context(bridge.uid, tasks[t].frame))


(***************************************************************************)
(* Properties of a client and its supervision loop.                        *)
(***************************************************************************)
RECURSIVE Pow2(_)
Pow2(n) == IF n = 0 THEN 1 ELSE 2 * Pow2(n - 1)

MinOf(a, b) == IF a < b THEN a ELSE b

\* the loop of client c is sleeping before its next attempt
InBackoff(c) == clients[c].loop = "backoff"

\* C15: while the loop sleeps before its next attempt, after N >= 1
\* consecutive failed attempts the delay is min(initial * 2^(N-1), 30 s),
\* and after an attempt that established a connection it is the initial
\* delay (1 s upstream, 2 s downstream).
C15_BackoffDelayIsExponentialFromInitial ==
    \A c \in LiveClients :
        InBackoff(c) =>
            LET N == clients[c].fails
            IN  /\ (N >= 1 /\ N < MaxFails) =>
                      clients[c].delay =
                          MinOf(InitialDelayMs(c) * Pow2(N - 1), MaxReconnectDelayMs)
                /\ N = 0 => clients[c].delay = InitialDelayMs(c)

\* C16: the reconnect delay of either connection never exceeds 30 s.
C16_ReconnectDelayAtMost30s ==
    \A c \in LiveClients : clients[c].delay <= MaxReconnectDelayMs

\* C17: connect() returns Ok only if the first attempt established the
\* connection, and once the first attempt has failed connect() is not left
\* waiting for the timeout or for a later attempt.
C17_ConnectSettlesWithFirstAttempt ==
    \A t \in TaskIds :
        tasks[t].op = "connect" =>
            LET cl == clients[tasks[t].client]
            IN  /\ (tasks[t].pc = "done" /\ tasks[t].status = "ok") => cl.first = "ok"
                /\ cl.first = "failed" =>
                      ~(tasks[t].pc = "connWait" /\ ~tasks[t].woken)

\* C18: every call of send() returns, whatever the connection and the
\* supervision loop do meanwhile.
C18_SendReturns ==
    \A t \in TaskIds :
        (tasks[t].op = "send" /\ tasks[t].pc # "done") ~> (tasks[t].pc = "done")

\* close() has taken the shutdown sender of client c and sent the signal
Closed(c) == clients[c].loop # "none" /\ ~clients[c].shutdown_tx

\* C19: after close() the supervision loop eventually exits, from whichever
\* state it is in, and starts no further connection attempt; a close() that
\* finds the client already closed changes nothing and returns Ok.
C19_CloseIsTerminalAndIdempotent ==
    /\ \A c \in LiveClients : Closed(c) ~> (clients[c].loop = "exited")
    /\ [][/\ \A c \in LiveClients :
               Closed(c) =>
                   /\ clients'[c].loop = "attempt" => clients[c].loop = "attempt"
                   /\ clients[c].loop = "exited" => clients'[c].loop = "exited"
          /\ \A t \in TaskIds :
               (tasks[t].op = "close" /\ Closed(tasks[t].client)) =>
                   /\ (tasks[t].pc = "closeSignal" /\ tasks'[t].pc # "closeSignal")
                         => clients' = clients
                   /\ (tasks[t].pc = "closeReturn" /\ tasks'[t].pc # "closeReturn")
                         => /\ tasks'[t].pc = "done" /\ tasks'[t].status = "ok"
                            /\ clients' = [clients EXCEPT
                                              ![tasks[t].client].connected = FALSE]
       ]_vars

\* the pong that answers the ping pending on client c
PongFor(c) == WireFrame(clients[c].conn, "pong", Unwrap(clients[c].ping))

Resolved(t) == tasks[t].kind = "webhook" /\ tasks[t].path = "conversational"

\* the agent request the handler of task t has built, if any
BuiltRequest(t) ==
    IF IsSome(tasks[t].data) /\ Unwrap(tasks[t].data).kind = "agent"
    THEN tasks[t].data ELSE None

\* C21: when the inbound frame carries an explicit session, the key the
\* handler resolves, and tags the agent request with, is that session
\* trimmed, whatever the peer fields and the scope are.
C21_ExplicitSessionWins ==
    \A t \in TaskIds :
        Resolved(t) /\ IsSome(tasks[t].frame.session) =>
            /\ tasks[t].key = Trim(Unwrap(tasks[t].frame.session))
            /\ IsSome(BuiltRequest(t)) =>
                  Unwrap(BuiltRequest(t)).sessionKey = Trim(Unwrap(tasks[t].frame.session))

\* an agent request tagged S1 was queued for a frame with session " S1",
\* peer fields that make a composite key, under the global scope
C21_Witness ==
    \E t \in TaskIds :
        /\ Resolved(t)
        /\ tasks[t].frame.session = Some(<<" ">> \o S_S1)
        /\ tasks[t].frame.peerKind = Some(S_dm)
        /\ tasks[t].frame.senderId = Some(S_u2)
        /\ bridge.scope = "global"
        /\ IsSome(tasks[t].sent)
        /\ Unwrap(tasks[t].sent).sessionKey = S_S1

\* the first candidate that is present and not blank, trimmed; "" if none
FirstNonBlank(candidates) ==
    LET good == {i \in DOMAIN candidates :
                    IsSome(candidates[i]) /\ Trim(Unwrap(candidates[i])) # <<>>}
    IN  IF good = {} THEN <<>>
        ELSE Trim(Unwrap(candidates[CHOOSE i \in good : \A j \in good : i <= j]))

\* ":" and the value when the value is present and non-empty
Suffix(o) == IF IsSome(o) /\ Unwrap(o) # <<>> THEN <<":">> \o Unwrap(o) ELSE <<>>

PeerKindOf(f) == FirstNonBlank(<<f.peerKind, f.chatType>>)
PeerIdOf(f) == FirstNonBlank(<<f.peerId, f.chatId, f.senderId>>)

\* the key the scope alone gives a frame
ScopeFallback(f) ==
    IF bridge.scope = "global" THEN <<"g", "l", "o", "b", "a", "l">>
    ELSE <<"w", "e", "b", "h", "o", "o", "k", ":">> \o Unwrap(f.id)

\* C22: with no explicit session the resolved key is
\* webhook:<agentId>:<peerKind>:<peerId>[:<topicId>][:<threadId>] exactly
\* when peer-kind (first non-blank of peerKind, chatType, trimmed) and
\* peer-id (first non-blank of peerId, chatId, senderId, trimmed) are both
\* non-empty, with the topic and thread suffixes only when non-empty;
\* otherwise it is the key of the scope fallback.
C22_CompositeKeyWithoutSession ==
    \A t \in TaskIds :
        Resolved(t) /\ IsNone(tasks[t].frame.session) =>
            LET f == tasks[t].frame
            IN  tasks[t].key =
                  IF PeerKindOf(f) # <<>> /\ PeerIdOf(f) # <<>>
                  THEN <<"w", "e", "b", "h", "o", "o", "k", ":">> \o bridge.agent_id
                       \o <<":">> \o PeerKindOf(f) \o <<":">> \o PeerIdOf(f)
                       \o Suffix(f.topicId) \o Suffix(f.threadId)
                  ELSE ScopeFallback(f)

\* a request was queued under webhook:main:group:u1: t1 for a frame with a
\* blank peerKind and peerId, chatType " group", chatId "u1 ", topicId
\* " t1" and an empty threadId
C22_Witness ==
    \E t \in TaskIds :
        /\ Resolved(t)
        /\ IsNone(tasks[t].frame.session)
        /\ tasks[t].frame.peerKind = Some(<<" ">>)
        /\ tasks[t].frame.peerId = Some(<<" ">>)
        /\ tasks[t].frame.chatId = Some(S_u1 \o <<" ">>)
        /\ tasks[t].frame.threadId = Some(<<>>)
        /\ IsSome(tasks[t].sent)
        /\ Unwrap(tasks[t].sent).sessionKey =
              S_webhook \o S_colon \o S_main \o S_colon \o S_group \o S_colon
              \o S_u1 \o S_colon \o <<" ">> \o S_t1

\* C23 as stated: under the Global scope the resolved key is "global" for
\* any inbound message.
C23_GlobalScopeAlwaysGlobal ==
    \A t \in TaskIds :
        Resolved(t) /\ bridge.scope = "global" => tasks[t].key = S_global

\* C23: under the Global scope the resolved key is "global" for every
\* inbound message that has no explicit session and whose peer-kind or
\* peer-id candidates are all absent or blank.
C23_GlobalScopeFallback ==
    \A t \in TaskIds :
        /\ Resolved(t) /\ bridge.scope = "global"
        /\ IsNone(tasks[t].frame.session)
        /\ PeerKindOf(tasks[t].frame) = <<>> \/ PeerIdOf(tasks[t].frame) = <<>>
        => /\ tasks[t].key = S_global
           /\ IsSome(BuiltRequest(t)) => Unwrap(BuiltRequest(t)).sessionKey = S_global

\* under the Global scope a request tagged "global" was queued for a frame
\* with peerKind "dm" and no usable peer id
C23_Witness ==
    \E t \in TaskIds :
        /\ Resolved(t) /\ bridge.scope = "global"
        /\ IsNone(tasks[t].frame.session)
        /\ tasks[t].frame.peerKind = Some(S_dm)
        /\ PeerIdOf(tasks[t].frame) = <<>>
        /\ IsSome(tasks[t].sent)
        /\ Unwrap(tasks[t].sent).sessionKey = S_global

\* a key that is non-empty and has no leading or trailing whitespace
WellFormedKey(k) == k # <<>> /\ Trim(k) = k

\* C24: every session key the handler uses to update the store or to tag
\* an agent request is non-empty and has no leading or trailing whitespace,
\* for every parsable inbound frame.
C24_SessionKeysNonEmptyAndTrimmed ==
    \A t \in TaskIds :
        /\ tasks[t].pc = "apply" => WellFormedKey(tasks[t].key)
        /\ IsSome(BuiltRequest(t)) => WellFormedKey(Unwrap(BuiltRequest(t)).sessionKey)

\* the handler of task t has decided what to emit for its upstream event
Translated(t) == tasks[t].kind = "event" /\ tasks[t].pc # "start"

\* the content array of a chat event, empty when the event has none
ItemsOf(ev) ==
    IF IsSome(ev.message) /\ IsSome(Unwrap(ev.message).content)
    THEN Unwrap(Unwrap(ev.message).content) ELSE <<>>

\* the text fields of the items whose type is "text", concatenated in order
RECURSIVE TextOfTextItems(_)
TextOfTextItems(items) ==
    IF items = <<>> THEN <<>>
    ELSE (IF Head(items).type = Some("text") /\ IsSome(Head(items).text)
          THEN Unwrap(Head(items).text) ELSE <<>>)
         \o TextOfTextItems(Tail(items))

\* C25: for an upstream event of type "chat" with a sessionKey and state
\* "final" the handler emits {type:"complete", content, session}, content
\* being the texts of the items of type "text" in order; items of another
\* type or without a type contribute nothing.
C25_ChatFinalEmitsComplete ==
    \A t \in TaskIds :
        LET ev == tasks[t].frame
        IN  /\ Translated(t) /\ ev.valid /\ IsNone(ev.event)
            /\ ev.type = Some("chat") /\ ev.state = Some("final")
            /\ IsSome(ev.sessionKey)
            => tasks[t].data =
                 Some([kind |-> "out", type |-> "complete",
                       content |-> TextOfTextItems(ItemsOf(ev)),
                       session |-> Unwrap(ev.sessionKey)])

\* data.phase and data.text of an agent event, None when absent
PhaseOf(ev) == IF IsSome(ev.data) THEN Unwrap(ev.data).phase ELSE None
TextOf(ev) == IF IsSome(ev.data) THEN Unwrap(ev.data).text ELSE None

\* C26: for an upstream event of type "agent" with stream and sessionKey,
\* stream "lifecycle" yields a complete message with empty content exactly
\* when data.phase is end or complete, stream "assistant" yields a progress
\* message carrying data.text exactly when that text is non-empty, and
\* stream "tool" and every other stream yield nothing.
C26_AgentEventTranslation ==
    \A t \in TaskIds :
        LET ev == tasks[t].frame
        IN  /\ Translated(t) /\ ev.valid /\ IsNone(ev.event)
            /\ ev.type = Some("agent") /\ IsSome(ev.stream) /\ IsSome(ev.sessionKey)
            => tasks[t].data =
                 IF ev.stream = Some("lifecycle")
                    /\ PhaseOf(ev) \in {Some("end"), Some("complete")}
                 THEN Some([kind |-> "out", type |-> "complete", content |-> <<>>,
                            session |-> Unwrap(ev.sessionKey)])
                 ELSE IF ev.stream = Some("assistant") /\ IsSome(TextOf(ev))
                         /\ Unwrap(TextOf(ev)) # <<>>
                 THEN Some([kind |-> "out", type |-> "progress",
                            content |-> Unwrap(TextOf(ev)),
                            session |-> Unwrap(ev.sessionKey)])
                 ELSE None

\* a progress message "hi" for session S1 was queued for an assistant event
\* whose data also carries phase "end"
C26_Witness ==
    \E t \in TaskIds :
        /\ Translated(t)
        /\ tasks[t].frame.type = Some("agent")
        /\ tasks[t].frame.stream = Some("assistant")
        /\ PhaseOf(tasks[t].frame) = Some("end")
        /\ tasks[t].sent = Some([kind |-> "out", type |-> "progress",
                                  content |-> S_hi, session |-> S_S1])

\* C27: an inbound frame that is not valid JSON is dropped on either
\* channel: its handler queues nothing on either connection and starts no
\* store operation, and both connections stay up.
C27_MalformedFrameDropped ==
    \A t \in TaskIds :
        tasks[t].kind \in {"webhook", "event"} /\ ~tasks[t].frame.valid =>
            /\ IsNone(tasks[t].sent)
            /\ tasks[t].op = "none"
            /\ \A c \in LiveClients : clients[c].connected

\* C28: when reset or record_inbound_meta fails with an I/O error while a
\* downstream conversational frame is being handled, that frame is not
\* forwarded upstream.
C28_StoreFailureAbandonsForward ==
    \A t \in TaskIds :
        Resolved(t) /\ "err" \in {tasks[t].resetOk, tasks[t].recordOk} =>
            IsNone(BuiltRequest(t)) /\ IsNone(tasks[t].sent)

\* a downstream frame that reaches the command test of the handler with a
\* content whose trimmed form starts with "/"
IsCommandFrame(f) ==
    /\ f.valid /\ IsSome(f.id) /\ IsSome(f.content)
    /\ IsSome(f.type) =>
          Unwrap(f.type) \notin {"session.get", "session.list", "session.reset",
                                 "session.delete", "connected", "error", "event"}
    /\ Trim(Unwrap(f.content)) # <<>>
    /\ Head(Trim(Unwrap(f.content))) = "/"

\* the session a command's reply or forward carries
SessionOrGlobal(f) ==
    IF IsSome(f.session) THEN Unwrap(f.session) ELSE <<"g", "l", "o", "b", "a", "l">>

\* the commands answered by the bridge itself
IsLocalCommand(f) ==
    Trim(Unwrap(f.content)) \in {<<"/", "h", "e", "l", "p">>,
                                 <<"/", "v", "e", "r", "s", "i", "o", "n">>}

\* the store as Store::new left it
StoreUntouched ==
    /\ file = <<>> /\ committed = EmptyStore /\ nextSid = 1
    /\ cache.data = EmptyStore /\ lock = [excl |-> 0, shared |-> {}]

\* C29: for a downstream frame whose trimmed content starts with "/", a
\* local reply goes downstream as {type:"complete", content, session}, a
\* forward sends the trimmed text upstream tagged with the frame's session
\* if present, else "global", and in both cases the session store is not
\* modified.
C29_CommandFrameEffect ==
    \A t \in TaskIds :
        LET f == tasks[t].frame
            d == Unwrap(tasks[t].data)
        IN  tasks[t].kind = "webhook" /\ tasks[t].pc # "start" /\ IsCommandFrame(f) =>
              /\ StoreUntouched /\ tasks[t].op = "none"
              /\ IsSome(tasks[t].data) \/ tasks[t].pc = "forward"
              /\ IsSome(tasks[t].data) =>
                    IF IsLocalCommand(f)
                    THEN /\ d.kind = "out" /\ d.type = "complete"
                         /\ d.session = SessionOrGlobal(f)
                         /\ tasks[t].client = "wh"
                    ELSE /\ d.kind = "agent"
                         /\ d.message = Trim(Unwrap(f.content))
                         /\ d.sessionKey = SessionOrGlobal(f)
                         /\ tasks[t].client = "oc"

\* with a session store set, the command " /foo " with session " S1" was
\* written upstream as "/foo" tagged " S1", and the store is as it was
C29_Witness ==
    \E t \in TaskIds :
        /\ bridge.session_store
        /\ tasks[t].kind = "webhook"
        /\ IsCommandFrame(tasks[t].frame)
        /\ tasks[t].frame.content = Some(<<" ">> \o S_foo \o <<" ">>)
        /\ tasks[t].frame.session = Some(<<" ">> \o S_S1)
        /\ StoreUntouched
        /\ \E i \in DOMAIN wire["oc"] :
              /\ wire["oc"][i].kind = "agent"
              /\ wire["oc"][i].message = S_foo
              /\ wire["oc"][i].sessionKey = <<" ">> \o S_S1

\* C30: any two agent requests built by the bridge carry different ids,
\* also when concurrent handlers build them at the same clock reading, and
\* in each request the idempotencyKey is the part of the id after "agent:".
C30_AgentRequestIdsDistinct ==
    /\ \A t, u \in TaskIds :
          t # u /\ IsSome(BuiltRequest(t)) /\ IsSome(BuiltRequest(u)) =>
              Unwrap(BuiltRequest(t)).id # Unwrap(BuiltRequest(u)).id
    /\ \A t \in TaskIds :
          IsSome(BuiltRequest(t)) =>
              Unwrap(BuiltRequest(t)).id =
                  <<"agent:", Unwrap(BuiltRequest(t)).idempotencyKey>>

(***************************************************************************)
(* Properties of the store file under concurrent handlers.                 *)
(***************************************************************************)
\* C31: the store file is truncated and rewritten only under the exclusive
\* lock, so while a reader holds the shared lock the file holds the whole
\* mapping of the last completed save, never a truncated or partial one.
C31_ReaderNeverSeesTruncatedFile ==
    \A t \in TaskIds :
        t \in lock.shared /\ tasks[t].pc = "loadRead" => file = Serialize(committed)

\* C32: a session key that has an entry in the persisted store keeps having
\* one: no completed save removes a key the previous completed save held,
\* for every interleaving of the loads and saves of concurrent handlers.
C32_PersistedKeysAreNeverRemoved ==
    [][\A k \in DOMAIN committed : k \in DOMAIN committed']_vars

(***************************************************************************)
(* Properties of the running bridge.                                       *)
(***************************************************************************)
\* the forward of task t found the upstream connection down: send_raw
\* armed its wait
FoundUpstreamDown(t) ==
    /\ tasks[t].kind = "webhook" /\ IsOpenclaw(tasks[t].client)
    /\ tasks[t].deadline > 0

\* C33: when the upstream connection is not established at the time a
\* downstream frame is to be forwarded, the frame is dropped: the handler
\* completes without returning an error and nothing is queued.
C33_ForwardWhileDownIsDropped ==
    \A t \in TaskIds :
        FoundUpstreamDown(t) /\ tasks[t].pc = "done" =>
            tasks[t].status = "ok" /\ IsNone(tasks[t].sent)

\* the delivery thread id of a frame: the thread id for peer-kind dm, the
\* topic id if non-empty else the thread id for group and channel
DeliveryThreadOf(f) ==
    IF PeerKindOf(f) = <<"d", "m">> THEN f.threadId
    ELSE IF PeerKindOf(f) \in {<<"g", "r", "o", "u", "p">>,
                               <<"c", "h", "a", "n", "n", "e", "l">>}
         THEN IF IsSome(f.topicId) /\ Unwrap(f.topicId) # <<>>
              THEN f.topicId ELSE f.threadId
    ELSE None

\* C34: the delivery thread id recorded for an inbound message is the thread
\* id when peer-kind is dm, the topic id if non-empty else the thread id
\* when peer-kind is group or channel, and none otherwise, peer-kind being
\* the first non-empty trimmed value of peerKind, chatType.
C34_DeliveryThreadId ==
    \A t \in TaskIds :
        Resolved(t) => tasks[t].ctx.thread_id = DeliveryThreadOf(tasks[t].frame)

(***************************************************************************)
(* Properties of the store next to another process.                        *)
(***************************************************************************)
\* the call of task t is inside lock_shared() or lock_exclusive()
AcquiringLock(t) == tasks[t].pc \in {"loadLock", "saveLock"}

\* C35: lock acquisition in load() and update() is bounded by lock_timeout:
\* a call that is waiting for a lock, also one that another process holds
\* and never releases, leaves the wait (with the lock or with an error)
\* unless the process stops.
C35_LockAcquisitionIsBounded ==
    \A t \in TaskIds : AcquiringLock(t) ~> (~AcquiringLock(t) \/ crashed)

(***************************************************************************)
(* Properties of connect(), close() and the loop under every interleaving. *)
(***************************************************************************)
\* connect() on client c has returned its timeout error
ConnectTimedOut(c) ==
    \E t \in TaskIds :
        /\ tasks[t].op = "connect" /\ tasks[t].client = c
        /\ tasks[t].pc = "done" /\ tasks[t].failedIn = "timeout"

\* close() has not been called on client c since its connect()
NotClosed(c) == clients[c].shutdown_tx /\ ~clients[c].shutdown

Upstream == wire["oc"]

\* the frame at position i is the first one written by its connection
OpensTransport(i) == i = 1 \/ Upstream[i - 1].conn # Upstream[i].conn

HandshakeWritten(n) ==
    \E i \in 1..Len(Upstream) : Upstream[i].conn = n /\ Upstream[i].kind = "connect"

\* C37: on every upstream connection, reconnects included, the first frame
\* written on the new transport is the connect request (no queued agent
\* request or pong precedes it), and the connected flag is true only once
\* the connect request of the current connection has been written.
C37_HandshakeIsFirstFrame ==
    /\ \A i \in 1..Len(Upstream) :
          OpensTransport(i) => /\ Upstream[i].kind = "connect"
                               /\ Upstream[i].data = ConnectRequest
    /\ clients["oc"].connected => HandshakeWritten(clients["oc"].conn)

\* a frame queued by send_raw was written by a connection that followed a
\* reconnect
C37_Witness ==
    \E i \in 1..Len(Upstream) :
        /\ Upstream[i].kind = "binary" /\ Upstream[i].conn > 1
        /\ HandshakeWritten(Upstream[i].conn)
(***************************************************************************)
(* Properties of the order in which frames are relayed.  Handler tasks are *)
(* numbered in the order their frames were read (SpawnHandler).            *)
(***************************************************************************)
\* two upstream frames translated to different outputs for one session, or
\* two downstream frames forwarded upstream as different agent requests
SameStream(t, u) ==
    /\ tasks[t].kind \in {"webhook", "event"} /\ tasks[u].kind = tasks[t].kind
    /\ tasks[t].client = tasks[u].client
    /\ tasks[t].kind = "webhook" => IsOpenclaw(tasks[t].client)
    /\ tasks[t].kind = "event" =>
          /\ Unwrap(tasks[t].data).kind = "out" /\ Unwrap(tasks[u].data).kind = "out"
          /\ Unwrap(tasks[t].data).session = Unwrap(tasks[u].data).session
    /\ tasks[t].data # tasks[u].data

\* C38: frames are relayed in arrival order: the output of a frame is never
\* enqueued on a client after the output of a frame that was read later from
\* the same peer (for upstream frames: of the same session) has been
\* enqueued on it.
C38_RelayedInArrivalOrder ==
    [][\A t, u \in TaskIds :
          (t < u /\ IsNone(tasks[t].sent) /\ IsSome(tasks'[t].sent)
                 /\ IsSome(tasks[u].sent) /\ SameStream(t, u)) => FALSE]_vars
(***************************************************************************)
(* Properties of the connected flag after close().                         *)
(***************************************************************************)
CloseReturned(c) ==
    \E t \in TaskIds :
        tasks[t].op = "close" /\ tasks[t].client = c /\ tasks[t].pc = "done"

\* C39: once close() has returned, is_connected() is false at every later
\* moment, whatever the supervision loop was doing when close() was called.
C39_DisconnectedAfterClose ==
    \A c \in LiveClients : CloseReturned(c) => ~clients[c].connected
(***************************************************************************)
(* Properties of the wait on conn_notify.                                  *)
(***************************************************************************)
\* the 5 s sleep of the waiting call t wins in this step: the call returns
\* its timeout error without having been notified
TimesOutUnnotified(t) ==
    /\ tasks[t].pc \in {"connWait", "sendWait"} /\ ~tasks[t].woken
    /\ tasks'[t].pc = "done" /\ tasks'[t].status = "err"

\* C40: no connection notification is lost: a connect() or send_raw() whose
\* wait ends with the timeout error was not overtaken by the loop, that is,
\* the connection is not established when the 5 s sleep completes, for
\* every interleaving of the loop's notify with the caller's check of the
\* connected flag and the registration of its wait.
C40_NoNotificationLost ==
    [][\A t \in TaskIds :
          TimesOutUnnotified(t) => ~clients[tasks[t].client].connected]_vars
====
